---- MODULE Spec2Model ----
(***************************************************************************)
(* Model of the multi-agent orchestration graph of src/graph.py            *)
(* (RegulatoryMultiAgentSystem) and of the POST /api/tasks handler of      *)
(* src/api/app.py that drives it.                                          *)
(*                                                                         *)
(* The graph is a StateGraph: a node receives a snapshot of the workflow   *)
(* state, and what it RETURNS (the Command's update dict, or the returned  *)
(* dict) is written back, key by key.  A key that the returned update does *)
(* not carry keeps its old value; an assignment to a key of the snapshot   *)
(* inside the node (state["iteration"] += 1) is local to that node.  The   *)
(* one exception is state["context"]: the agents write into the dict       *)
(* object itself and hand the same object back.                            *)
(* After a node returns, its successors are the node its Command names     *)
(* (goto) together with the node its conditional edge's routing function   *)
(* names, looked up in the edge's path map; "end" stands for the graph's   *)
(* END in every path map of _build_enhanced_graph.                         *)
(***************************************************************************)
EXTENDS Integers, FiniteSets, Sequences, TLC

----------------------------------------------------------------------------
(* Bounds of the model *)

\* max_iterations is drawn from 0..MaxIterationsBound
MaxIterationsBound == 1

(* Program constants *)

\* app.ainvoke(initial_state) is called without a config, so the graph
\* library's default limit on the number of steps of one invocation applies
RecursionLimit == 25

\* confidence scores are kept in hundredths: 0.6 is 60
BaseConfidence == 50
ConfidenceThreshold == 60
CitationThreshold == 5

----------------------------------------------------------------------------
(* Names *)

None == "None"
END == "__end__"

AgentNodes == {"compliance_agent", "legal_analysis_agent", "risk_assessment_agent",
               "research_agent", "perplexity_agent", "document_review_agent"}

Nodes == AgentNodes \cup {"orchestrator", "quality_control", "finalize_output"}

\* agent.config.name of the agent registered under each node name
ConfigName(n) == IF n = "perplexity_agent" THEN "perplexity_research_agent" ELSE n

AnalysisKeys == {"perplexity_research", "compliance_analysis", "legal_analysis",
                 "risk_assessment", "research_findings"}

\* a context value is absent, present but empty (falsy), or present:
\* texts are "short" (1..100 characters) or "long" (more than 100); the
\* perplexity synthesis is "low" or "high" by its own confidence_score
\* (at most 0.7 / above 0.7)
Truthy(v) == v \notin {"absent", "empty"}

\* the task text is read by the agents only, never by the graph
Tasks == {"task"}

MaxIterMsg == "Maximum iterations reached"

AgentFailedMsg(name) == <<"Agent", name, "failed">>

EmptyContext ==
    [perplexity_research |-> "absent", compliance_analysis |-> "absent",
     legal_analysis |-> "absent", risk_assessment |-> "absent",
     research_findings |-> "absent", perplexity_citations |-> 0,
     consultas_anvisa |-> 0, legal_tools_used |-> FALSE,
     regulatory_risk_assessment |-> FALSE, research_results_count |-> 0,
     quality_checked |-> FALSE, quality_issues |-> FALSE,
     final_report |-> "absent"]

NoChecks == [ran |-> FALSE, has_perplexity_research |-> FALSE,
             has_compliance_analysis |-> FALSE, has_legal_analysis |-> FALSE,
             has_risk_assessment |-> FALSE, has_research_findings |-> FALSE,
             sufficient_confidence |-> FALSE, has_citations |-> FALSE]

----------------------------------------------------------------------------
VARIABLES
    pc,         \* "idle", "running", "returned", "responded": position of submit_task / run
    state,      \* the workflow state held by the graph (EnhancedAgentState)
    active,     \* nodes of the current step that have not started yet
    running,    \* agent nodes whose wrapper is awaiting agent.process
    pending,    \* nodes scheduled for the next step
    steps,      \* steps of this invocation of the graph
    result,     \* what run() returned
    response,   \* the TaskResponse of submit_task
    exc,        \* the exception that left app.ainvoke, or None
    hist,       \* history of the run, read by the properties only
    now,        \* the clock (datetime.utcnow), in ticks
    sqlite,     \* the rows of the table memories of the SQLite store
    redis,      \* the keys, times to live and index sets of the Redis store
    ret,        \* what the last call on the memory managers returned
    mhist,      \* history of the calls on the memory managers, read by the properties only
    http,       \* the last HTTP request and what the application answered
    ws,         \* the connection on /ws: its state and the frames exchanged
    tool,       \* the calls of use_tool and how each ended
    regdb,      \* the tables regulations and compliance_templates
    calc,       \* the citations given to _calculate_confidence and its result
    mon,        \* the monitoring service: connections, event history, calls under way
    procs       \* the concurrent calls on one memory store, each with its position

graphvars == <<pc, state, active, running, pending, steps, result, response, exc, hist>>

memvars == <<now, sqlite, redis, ret, mhist>>

apivars == <<http, ws, tool>>

\* what a run of the graph leaves alone
svcvars == <<regdb, calc, mon, procs>>

nongraph == <<memvars, apivars, svcvars>>

\* what the memory managers leave alone
nonmemory == <<graphvars, apivars, svcvars>>

\* what the API and the tools leave alone
nonapi == <<graphvars, memvars, svcvars>>

\* what the database, the confidence score, the monitoring service and the
\* concurrent callers of the store leave alone
nonsvc == <<graphvars, memvars, apivars>>

vars == <<graphvars, nongraph>>

EmptyRedis == [data |-> {}, expiry |-> {}, index |-> {}]

\* no call has returned
NoRet == [op |-> "none", id |-> 0, out_sqlite |-> <<>>, out_redis |-> <<>>,
          ok_sqlite |-> FALSE, ok_redis |-> FALSE, before |-> <<0, 0>>, args |-> <<>>]

NoMemHist == [log |-> {}]

\* the stores after initialize, at the start of the clock
MemoryInit ==
    /\ now = 1
    /\ sqlite = {}
    /\ redis = EmptyRedis
    /\ ret = NoRet
    /\ mhist = NoMemHist

\* no request has come in
NoRequest == [path |-> "None", method |-> "None", header |-> "None", query |-> "None",
              body |-> "None"]

NoHttp == [request |-> NoRequest, status |-> 0, handler |-> "None", ran |-> FALSE,
           requests |-> 0]

\* no client has connected to /ws
NoWs == [state |-> "none", peer |-> "none", replies |-> <<>>]

\* no tool has been used
NoTool == [calls |-> <<>>]

\* the tables after create_all
EmptyDb == [regulations |-> {}, compliance_templates |-> {}, calls |-> 0,
            first |-> <<>>, alone |-> TRUE]

\* nothing has been scored
NoCalc == [citations |-> <<>>, confidence |-> 0, done |-> FALSE]

\* the monitoring sockets that may connect, and the requests whose handlers
\* call the monitoring service; a request's task_id is its execution id
Sockets == {"w1", "w2"}

Handlers == {"t1", "t2"}

\* a handler that is in none of the operations of the service
NoBroadcast == [op |-> "none", status |-> "idle", message |-> 0, it |-> 0,
                disconnected |-> <<>>, succeeded |-> {},
                connections_after |-> <<>>, stored_after |-> FALSE]

\* the monitoring service after import: no client, no execution, no event.
\* Beside the fields of MonitoringService: the state of every socket, what
\* each handler is doing, the messages each socket received (and those it
\* received more than once), how often it
\* was removed from active_connections, and the operations that raised.
NoMon == [active_connections |-> <<>>,
          executions |-> {},
          events |-> [e \in Handlers |-> <<>>],
          sockets |-> [w \in Sockets |-> "none"],
          handlers |-> [h \in Handlers |-> NoBroadcast],
          received |-> [w \in Sockets |-> {}],
          twice |-> {},
          removed |-> [w \in Sockets |-> 0],
          raised |-> {},
          messages |-> 0]

\* the callers of the Memory manager that run side by side
Callers == {"p1", "p2"}

\* a caller that is in no call
NoCall == [op |-> "none", store |-> "none", id |-> 0, pc |-> "idle", entry |-> <<>>]

\* no caller is at work on a store; no call has been made. found holds a
\* triple of store, id and number for every recall that found its entry,
\* forgotten a pair of store and id for every forget that returned true.
NoProcs == [at |-> [p \in Callers |-> NoCall], started |-> 0,
            found |-> {}, forgotten |-> {}]

ServiceInit ==
    /\ regdb = EmptyDb
    /\ calc = NoCalc
    /\ mon = NoMon
    /\ procs = NoProcs

\* the application after startup
ApiInit ==
    /\ http = NoHttp
    /\ ws = NoWs
    /\ tool = NoTool

NoResult == [kind |-> "none"]

NoHist == [executed |-> {}, qc_passed |-> FALSE, dispatches |-> 0,
           completed |-> {}, written |-> {}, failed |-> None,
           seed_checked |-> FALSE, last_handoff |-> {}, last_node |-> None,
           after_failure |-> 0, events |-> <<>>,
           failed_gate |-> FALSE, regated |-> FALSE]

initial_state(task, max_iterations, context) ==
    [current_agent |-> "orchestrator", next_agent |-> None, task |-> task,
     iteration |-> 0, max_iterations |-> max_iterations, context |-> context,
     final_output |-> "absent", error |-> None, confidence_score |-> 0,
     quality_checks |-> NoChecks]

Init ==
    /\ pc = "idle"
    /\ state = initial_state("task", 1, EmptyContext)
    /\ active = {}
    /\ running = {}
    /\ pending = {}
    /\ steps = 0
    /\ result = NoResult
    /\ response = NoResult
    /\ exc = None
    /\ hist = NoHist
    /\ MemoryInit
    /\ ApiInit
    /\ ServiceInit

----------------------------------------------------------------------------
(* Pure functions of the orchestration graph *)

required_analyses ==
    [perplexity_research |-> "perplexity_agent",
     compliance_analysis |-> "compliance_agent",
     legal_analysis |-> "legal_analysis_agent",
     risk_assessment |-> "risk_assessment_agent",
     research_findings |-> "research_agent"]

\* the priorities read off the order in which required_analyses lists the keys
analysis_priorities_listed ==
    [perplexity_research |-> 1, compliance_analysis |-> 2, legal_analysis |-> 3,
     risk_assessment |-> 4, research_findings |-> 5]

analysis_priorities ==
    [perplexity_research |-> 1, research_findings |-> 2, compliance_analysis |-> 3,
     legal_analysis |-> 4, risk_assessment |-> 5]

\* analyses that are not in the context, or are there with a falsy value
missing_analyses(context) ==
    {a \in DOMAIN required_analyses : ~Truthy(context[a])}

\* min(missing_analyses, key=priority)
next_analysis(context) ==
    CHOOSE a \in missing_analyses(context) :
        \A b \in missing_analyses(context) :
            analysis_priorities[a] <= analysis_priorities[b]

\* the decision without the test of the quality_checked flag
analyze_orchestrator_state_unchecked(context) ==
    IF missing_analyses(context) = {}
    THEN "document_review_agent"
    ELSE required_analyses[next_analysis(context)]

\* the "next_agent" of the action _analyze_orchestrator_state decides on
analyze_orchestrator_state(context) ==
    IF missing_analyses(context) = {}
    THEN IF ~context.quality_checked
         THEN "quality_control"
         ELSE "document_review_agent"
    ELSE required_analyses[next_analysis(context)]

Min(a, b) == IF a <= b THEN a ELSE b

calculate_agent_confidence(name, context) ==
    LET bonus ==
          CASE name = "compliance_agent" ->
                 (IF context.compliance_analysis = "long" THEN 30 ELSE 0)
                 + (IF context.consultas_anvisa > 0 THEN 20 ELSE 0)
            [] name = "legal_analysis_agent" ->
                 (IF context.legal_analysis = "long" THEN 30 ELSE 0)
                 + (IF context.legal_tools_used THEN 20 ELSE 0)
            [] name = "risk_assessment_agent" ->
                 (IF context.risk_assessment = "long" THEN 30 ELSE 0)
                 + (IF context.regulatory_risk_assessment THEN 20 ELSE 0)
            [] name = "research_agent" ->
                 (IF context.research_findings = "long" THEN 30 ELSE 0)
                 + (IF context.research_results_count > 0 THEN 20 ELSE 0)
            [] name = "perplexity_research_agent" ->
                 (IF context.perplexity_research = "high" THEN 40 ELSE 0)
                 + (IF context.perplexity_citations > 10 THEN 10 ELSE 0)
            [] OTHER -> 0
    IN Min(BaseConfidence + bonus, 100)

\* the seven checks with has_citations asking for any citation at all
quality_checks_any_citation(s) ==
    [ran |-> TRUE,
     has_perplexity_research |-> Truthy(s.context.perplexity_research),
     has_compliance_analysis |-> Truthy(s.context.compliance_analysis),
     has_legal_analysis |-> Truthy(s.context.legal_analysis),
     has_risk_assessment |-> Truthy(s.context.risk_assessment),
     has_research_findings |-> Truthy(s.context.research_findings),
     sufficient_confidence |-> s.confidence_score > ConfidenceThreshold,
     has_citations |-> s.context.perplexity_citations > 0]

\* the seven checks of _quality_control_node
quality_checks_of(s) ==
    [ran |-> TRUE,
     has_perplexity_research |-> Truthy(s.context.perplexity_research),
     has_compliance_analysis |-> Truthy(s.context.compliance_analysis),
     has_legal_analysis |-> Truthy(s.context.legal_analysis),
     has_risk_assessment |-> Truthy(s.context.risk_assessment),
     has_research_findings |-> Truthy(s.context.research_findings),
     sufficient_confidence |-> s.confidence_score > ConfidenceThreshold,
     has_citations |-> s.context.perplexity_citations > CitationThreshold]

\* all(quality_checks.values()); the empty dict has no values
all_checks(qc) ==
    qc.ran =>
       /\ qc.has_perplexity_research /\ qc.has_compliance_analysis
       /\ qc.has_legal_analysis /\ qc.has_risk_assessment
       /\ qc.has_research_findings /\ qc.sufficient_confidence
       /\ qc.has_citations

(* Routing functions of the conditional edges *)

orchestrator_routing(s) == s.next_agent

\* the routing without the test of the error field
agent_handoff_routing_no_error(s) ==
    IF s.current_agent = "document_review_agent" THEN "end"
    ELSE "orchestrator"

agent_handoff_routing(s) ==
    IF s.error # None THEN "end"
    ELSE IF s.current_agent = "document_review_agent" THEN "end"
    ELSE "orchestrator"

\* the routing with any() in the place of all()
quality_control_routing_any(s) ==
    IF s.error # None THEN "end"
    ELSE IF \/ s.quality_checks.has_perplexity_research
            \/ s.quality_checks.has_compliance_analysis
            \/ s.quality_checks.has_legal_analysis
            \/ s.quality_checks.has_risk_assessment
            \/ s.quality_checks.has_research_findings
            \/ s.quality_checks.sufficient_confidence
            \/ s.quality_checks.has_citations
         THEN "finalize_output"
    ELSE "orchestrator"

quality_control_routing(s) ==
    IF s.error # None THEN "end"
    ELSE IF all_checks(s.quality_checks) THEN "finalize_output"
    ELSE "orchestrator"

(* Path maps of _build_enhanced_graph: the names a routing function may return *)

OrchestratorEnds == AgentNodes \cup {"quality_control", "end"}
AgentEnds == AgentNodes \cup {"orchestrator", "quality_control", "end"}
QualityControlEnds == {"orchestrator", "finalize_output", "end"}

\* the nodes that run after a node whose Command names goto and whose
\* routing function returned route; "end" is END, which is not a node
Successors(goto, route) == {goto, route} \ {"end"}

----------------------------------------------------------------------------
(* Inputs *)

\* what an LLM reply stored as an analysis can be
TextValues == {"empty", "short", "long"}

\* numbers of citations a Perplexity research can return
CitationCounts == {0, 6, 11}

\* seed contexts a caller passes to run: any subset of the five analyses
\* (a seeded Perplexity research comes with its citations), with or without
\* the quality_checked flag
SeedContexts ==
    {[EmptyContext EXCEPT
        !.perplexity_research = IF "perplexity_research" \in K THEN "high" ELSE "absent",
        !.compliance_analysis = IF "compliance_analysis" \in K THEN "long" ELSE "absent",
        !.legal_analysis = IF "legal_analysis" \in K THEN "long" ELSE "absent",
        !.risk_assessment = IF "risk_assessment" \in K THEN "long" ELSE "absent",
        !.research_findings = IF "research_findings" \in K THEN "long" ELSE "absent",
        !.quality_checked = q,
        !.perplexity_citations = IF "perplexity_research" \in K THEN 6 ELSE 0] :
     K \in SUBSET AnalysisKeys, q \in BOOLEAN}

\* what a successful agent.process leaves behind
AgentOutcomes(n) ==
    CASE n = "perplexity_agent" ->
           [text : {"low", "high"}, aux : CitationCounts]
      [] n = "risk_assessment_agent" -> [text : TextValues, aux : {0, 1}]
      [] n = "research_agent" -> [text : TextValues, aux : {0, 1}]
      [] OTHER -> [text : TextValues, aux : {0}]

\* the context after agent.process of node n wrote its findings into it
AgentWrites(n, context, o) ==
    CASE n = "compliance_agent" ->
           [context EXCEPT !.compliance_analysis = o.text]
      [] n = "legal_analysis_agent" ->
           [context EXCEPT !.legal_analysis = o.text, !.legal_tools_used = TRUE]
      [] n = "risk_assessment_agent" ->
           [context EXCEPT !.risk_assessment = o.text,
                           !.regulatory_risk_assessment = (o.aux > 0)]
      [] n = "research_agent" ->
           [context EXCEPT !.research_findings = o.text,
                           !.research_results_count = o.aux]
      [] n = "perplexity_agent" ->
           [context EXCEPT !.perplexity_research = o.text,
                           !.perplexity_citations = o.aux]
      [] n = "document_review_agent" ->
           [context EXCEPT !.final_report = o.text]

\* the analysis key an agent node writes
KeyOf(n) ==
    CASE n = "compliance_agent" -> "compliance_analysis"
      [] n = "legal_analysis_agent" -> "legal_analysis"
      [] n = "risk_assessment_agent" -> "risk_assessment"
      [] n = "research_agent" -> "research_findings"
      [] n = "perplexity_agent" -> "perplexity_research"
      [] n = "document_review_agent" -> "final_report"

----------------------------------------------------------------------------
(* The graph engine: a node has returned; act2 and run2 are the nodes of   *)
(* the current step still to start and still running, targets the nodes it *)
(* schedules.  The next step starts when the current one has drained.      *)

Advance(act2, run2, targets) ==
    /\ running' = run2
    /\ IF act2 \cup run2 = {}
       THEN /\ active' = pending \cup targets
            /\ pending' = {}
            /\ steps' = steps + 1
       ELSE /\ active' = act2
            /\ pending' = pending \cup targets
            /\ steps' = steps

\* an exception leaves app.ainvoke
Raise(e) ==
    /\ pc' = "raised"
    /\ exc' = e
    /\ active' = {}
    /\ running' = {}
    /\ pending' = {}
    /\ steps' = steps

\* The names graph.py can use at module level: datetime is not among its
\* imports
ModuleNames == {"time", "uuid", "StateGraph", "END", "START", "Command", "Memory",
                "get_logger", "monitoring_service", "AgentEvent"}

AgentEvent(agent_name, event_type, s) ==
    [agent_name |-> agent_name, event_type |-> event_type,
     iteration |-> s.iteration, confidence |-> s.confidence_score]

\* _send_monitoring_event with the monitoring service available: the events
\* handed to broadcast_event so far, after this call. Building the event
\* evaluates datetime.now(); the NameError is caught and logged.
_send_monitoring_event(events, agent_name, event_type, s) ==
    IF "datetime" \in ModuleNames
    THEN Append(events, AgentEvent(agent_name, event_type, s))
    ELSE events

----------------------------------------------------------------------------
(* Actions *)

\* submit_task calls run, which builds the initial state and starts the graph
run(task, max_iterations, context) ==
    /\ pc = "idle"
    /\ pc' = "running"
    /\ state' = initial_state(task, max_iterations, context)
    /\ active' = {"orchestrator"}
    /\ running' = {}
    /\ pending' = {}
    /\ steps' = 0
    /\ result' = NoResult
    /\ response' = NoResult
    /\ exc' = None
    /\ hist' = [NoHist EXCEPT !.seed_checked = context.quality_checked]
    /\ UNCHANGED nongraph

orchestrator_node ==
    /\ pc = "running"
    /\ "orchestrator" \in active
    /\ steps < RecursionLimit
    /\ LET iteration == state.iteration + 1
           ceiling == iteration > state.max_iterations
           next_agent == analyze_orchestrator_state(state.context)
           s2 == IF ceiling
                 THEN [state EXCEPT !.error = MaxIterMsg]
                 ELSE [state EXCEPT !.next_agent = next_agent,
                                    !.current_agent = "orchestrator"]
           goto == IF ceiling THEN "end" ELSE next_agent
           route == orchestrator_routing(s2)
           targets == Successors(goto, route)
       IN /\ state' = s2
          /\ IF route \in OrchestratorEnds
             THEN /\ Advance(active \ {"orchestrator"}, running, targets)
                  /\ UNCHANGED <<pc, exc>>
                  /\ hist' = [hist EXCEPT
                        !.executed = @ \cup {"orchestrator"},
                        !.events = _send_monitoring_event(@, "orchestrator", "started", state),
                        !.after_failure = IF hist.failed # None THEN @ + 1 ELSE @,
                        !.dispatches = IF targets # {} THEN @ + 1 ELSE @,
                        !.last_node = "orchestrator",
                        !.last_handoff = {goto, route}]
             ELSE /\ Raise("KeyError")
                  /\ hist' = [hist EXCEPT
                        !.executed = @ \cup {"orchestrator"},
                        !.events = _send_monitoring_event(@, "orchestrator", "started", state),
                        !.after_failure = IF hist.failed # None THEN @ + 1 ELSE @,
                        !.last_node = "orchestrator",
                        !.last_handoff = {}]
    /\ UNCHANGED <<result, response>>
    /\ UNCHANGED nongraph

\* agent_wrapper up to its await of agent.process
agent_begin(n) ==
    /\ pc = "running"
    /\ n \in active \cap AgentNodes
    /\ steps < RecursionLimit
    /\ active' = active \ {n}
    /\ running' = running \cup {n}
    /\ hist' = [hist EXCEPT !.executed = @ \cup {n},
                        !.events = _send_monitoring_event(@, ConfigName(n), "started", state),
                        !.after_failure = IF hist.failed # None THEN @ + 1 ELSE @, !.last_node = n]
    /\ UNCHANGED <<pc, state, pending, steps, result, response, exc>>
    /\ UNCHANGED nongraph

\* agent.process returned: the wrapper's Command
agent_return(n, o) ==
    /\ pc = "running"
    /\ n \in running
    /\ LET name == ConfigName(n)
           updated_context == AgentWrites(n, state.context, o)
           confidence == calculate_agent_confidence(name, updated_context)
           s2 == [state EXCEPT
                    !.context = updated_context,
                    !.confidence_score = confidence,
                    !.current_agent = name,
                    !.final_output = IF name = "document_review_agent"
                                     THEN updated_context.final_report ELSE @]
           goto == IF name = "document_review_agent" THEN "end" ELSE "orchestrator"
           route == agent_handoff_routing(s2)
       IN /\ state' = s2
          /\ route \in AgentEnds
          /\ Advance(active, running \ {n}, Successors(goto, route))
          /\ hist' = [hist EXCEPT !.completed = @ \cup {n},
                                  !.failed_gate = FALSE,
                                  !.events = _send_monitoring_event(@, name, "completed", s2),
                                  !.written = @ \cup {KeyOf(n)}]
    /\ UNCHANGED <<pc, result, response, exc>>
    /\ UNCHANGED nongraph

\* agent.process raised: the wrapper's except branch
agent_raise(n) ==
    /\ pc = "running"
    /\ n \in running
    /\ LET name == ConfigName(n)
           s2 == [state EXCEPT !.error = AgentFailedMsg(name),
                               !.current_agent = name]
           goto == "end"
           route == agent_handoff_routing(s2)
       IN /\ state' = s2
          /\ route \in AgentEnds
          /\ Advance(active, running \ {n}, Successors(goto, route))
          /\ hist' = [hist EXCEPT !.failed = n]
    /\ UNCHANGED <<pc, result, response, exc>>
    /\ UNCHANGED nongraph

quality_control_node ==
    /\ pc = "running"
    /\ "quality_control" \in active
    /\ steps < RecursionLimit
    /\ LET quality_checks == quality_checks_of(state)
           all_checks_passed == all_checks(quality_checks)
           s2 == [state EXCEPT
                    !.quality_checks = quality_checks,
                    !.context = IF all_checks_passed
                                THEN [@ EXCEPT !.quality_checked = TRUE]
                                ELSE [@ EXCEPT !.quality_issues = TRUE]]
           goto == IF all_checks_passed THEN "finalize_output" ELSE "orchestrator"
           route == quality_control_routing(s2)
       IN /\ state' = s2
          /\ route \in QualityControlEnds
          /\ Advance(active \ {"quality_control"}, running, Successors(goto, route))
          /\ hist' = [hist EXCEPT
                !.executed = @ \cup {"quality_control"},
                        !.after_failure = IF hist.failed # None THEN @ + 1 ELSE @,
                !.qc_passed = @ \/ all_checks_passed,
                !.regated = @ \/ hist.failed_gate,
                !.failed_gate = ~all_checks_passed,
                !.last_node = "quality_control"]
    /\ UNCHANGED <<pc, result, response, exc>>
    /\ UNCHANGED nongraph

\* returns the state as it is; its only edge leads to END
finalize_output_node ==
    /\ pc = "running"
    /\ "finalize_output" \in active
    /\ steps < RecursionLimit
    /\ Advance(active \ {"finalize_output"}, running, {})
    /\ hist' = [hist EXCEPT !.executed = @ \cup {"finalize_output"},
                        !.after_failure = IF hist.failed # None THEN @ + 1 ELSE @,
                            !.last_node = "finalize_output"]
    /\ UNCHANGED <<pc, state, result, response, exc>>
    /\ UNCHANGED nongraph

\* the graph has used up its steps with nodes still scheduled
recursion_limit ==
    /\ pc = "running"
    /\ steps >= RecursionLimit
    /\ active # {}
    /\ Raise("GraphRecursionError")
    /\ UNCHANGED <<state, result, response, hist>>
    /\ UNCHANGED nongraph

\* the result bag with the empty context of the except branch
run_result_no_context(final_state) ==
    [kind |-> "result",
     success |-> Truthy(final_state.final_output) /\ final_state.error = None,
     output |-> final_state.final_output,
     context |-> EmptyContext,
     iterations |-> final_state.iteration,
     confidence_score |-> final_state.confidence_score,
     quality_checks |-> final_state.quality_checks,
     error |-> "absent"]

\* run's result bag when app.ainvoke returned the final state
run_result(final_state) ==
    [kind |-> "result",
     success |-> Truthy(final_state.final_output) /\ final_state.error = None,
     output |-> final_state.final_output,
     context |-> final_state.context,
     iterations |-> final_state.iteration,
     confidence_score |-> final_state.confidence_score,
     quality_checks |-> final_state.quality_checks,
     error |-> "absent"]

\* run's result bag when app.ainvoke raised
run_failed(e) ==
    [kind |-> "result",
     success |-> FALSE,
     output |-> "absent",
     context |-> EmptyContext,
     iterations |-> 0,
     confidence_score |-> 0,
     quality_checks |-> NoChecks,
     error |-> e]

run_return ==
    /\ pc = "running"
    /\ active = {} /\ running = {} /\ pending = {}
    /\ result' = run_result(state)
    /\ pc' = "returned"
    /\ UNCHANGED <<state, active, running, pending, steps, response, exc, hist>>
    /\ UNCHANGED nongraph

run_except ==
    /\ pc = "raised"
    /\ result' = run_failed(exc)
    /\ pc' = "returned"
    /\ UNCHANGED <<state, active, running, pending, steps, response, exc, hist>>
    /\ UNCHANGED nongraph

\* result.get("error") is None when the bag has no such key
TaskResponse(r) ==
    [kind |-> "response",
     success |-> r.success,
     output |-> r.output,
     error |-> IF r.error = "absent" THEN None ELSE r.error,
     context |-> r.context,
     iterations |-> r.iterations,
     execution_time |-> TRUE]

\* submit_task after run has returned
submit_task ==
    /\ pc = "returned"
    /\ response' = TaskResponse(result)
    /\ pc' = "responded"
    /\ UNCHANGED <<state, active, running, pending, steps, result, exc, hist>>
    /\ UNCHANGED nongraph

Next ==
    \/ \E t \in Tasks, m \in 0..MaxIterationsBound, c \in SeedContexts : run(t, m, c)
    \/ orchestrator_node
    \/ \E n \in AgentNodes : agent_begin(n)
    \/ \E n \in AgentNodes : \E o \in AgentOutcomes(n) : agent_return(n, o)
    \/ \E n \in AgentNodes : agent_raise(n)
    \/ quality_control_node
    \/ finalize_output_node
    \/ recursion_limit
    \/ run_return
    \/ run_except
    \/ submit_task

Spec == Init /\ [][Next]_vars

----------------------------------------------------------------------------
(* The quality-control step on its own: the graph stands at                *)
(* quality_control with any combination of analyses, confidence and        *)
(* citations in its state.                                                 *)

QCConfidences == {0, 50, 60, 65, 70, 100}
QCCitations == {0, 3, 5, 6, 11}
QCValues == {"absent", "empty", "long"}

QCContexts ==
    {[EmptyContext EXCEPT
        !.perplexity_research = IF v[1] = "long" THEN "high" ELSE v[1],
        !.compliance_analysis = v[2],
        !.legal_analysis = v[3],
        !.risk_assessment = v[4],
        !.research_findings = v[5],
        !.perplexity_citations = c] :
     v \in [1..5 -> QCValues], c \in QCCitations}

InitQC ==
    /\ pc = "running"
    /\ state \in {[initial_state("task", 1, c) EXCEPT
                     !.next_agent = "quality_control",
                     !.confidence_score = f] :
                  c \in QCContexts, f \in QCConfidences}
    /\ active = {"quality_control"}
    /\ running = {}
    /\ pending = {}
    /\ steps = 1
    /\ result = NoResult
    /\ response = NoResult
    /\ exc = None
    /\ hist = [NoHist EXCEPT !.executed = {"orchestrator"}, !.dispatches = 1,
                             !.last_node = "orchestrator",
                             !.last_handoff = {"quality_control"}]
    /\ MemoryInit
    /\ ApiInit
    /\ ServiceInit

NextQC == quality_control_node

SpecQC == InitQC /\ [][NextQC]_vars

----------------------------------------------------------------------------
(* The memory subsystem (src/memory): the Memory manager over a store.     *)
(* The same calls are made on a manager over the SQLite store and on a     *)
(* manager over the Redis store, side by side, so that what the two stores *)
(* hold and return can be compared.  Times are ticks of the clock, of      *)
(* which there are TicksPerSecond in a second; the clock starts after the  *)
(* epoch, so that a time is never 0.                                       *)

\* the clock runs from 1 to MaxTime
MaxTime == 4

\* memory ids that uuid4 can return
MaxIds == 2

\* recall is called on an entry until its access_count is MaxAccess
MaxAccess == 1

\* entries remembered where remember and recall are looked at alone
MaxRoundTrips == 1

\* Memory.__init__: default_ttl, in seconds
DefaultTtl == 3600

TicksPerSecond == 2

\* the absent datetime (None in an entry, NULL in a row)
NoTime == -1

MemoryIds == 1..MaxIds

SHORT_TERM == "short_term"
LONG_TERM == "long_term"

\* a content is a text of lines; a line that consolidate_memories writes
\* is "[timestamp] text", any other line has no stamp
Line(stamp, text) == [stamp |-> stamp, text |-> text]
Text(c) == <<Line(NoTime, c)>>

\* MemoryEntry, with the defaults of its fields
MemoryEntry(id, type, content, agent_id, thread_id, tags, timestamp, expires_at) ==
    [id |-> id, type |-> type, content |-> content, agent_id |-> agent_id,
     thread_id |-> thread_id, timestamp |-> timestamp, relevance_score |-> 100,
     access_count |-> 0, last_accessed |-> NoTime, expires_at |-> expires_at,
     tags |-> tags, consolidated |-> FALSE, consolidated_into |-> 0]

\* the elements of a list
Elems(seq) == {seq[i] : i \in 1..Len(seq)}

\* int(x / TicksPerSecond): truncation towards zero
IntSeconds(ticks) ==
    IF ticks >= 0 THEN ticks \div TicksPerSecond
    ELSE 0 - ((0 - ticks) \div TicksPerSecond)

(* SQLiteMemoryStore: the table memories is a set of rows, one per id *)

\* the tuple that store binds to the INSERT: a datetime becomes its
\* timestamp, an absent one NULL
entry_to_row(entry) ==
    [entry EXCEPT
        !.last_accessed = IF entry.last_accessed # NoTime THEN @ ELSE NoTime,
        !.expires_at = IF entry.expires_at # NoTime THEN @ ELSE NoTime]

\* _row_to_entry: a NULL or zero timestamp becomes an absent datetime
row_to_entry(row) ==
    [row EXCEPT
        !.last_accessed = IF row.last_accessed \notin {NoTime, 0} THEN @ ELSE NoTime,
        !.expires_at = IF row.expires_at \notin {NoTime, 0} THEN @ ELSE NoTime]

\* INSERT OR REPLACE
sqlite_store(db, entry) ==
    {r \in db : r.id # entry.id} \cup {entry_to_row(entry)}

\* the list of the entry found, empty for None
sqlite_retrieve(db, memory_id) ==
    IF \E r \in db : r.id = memory_id
    THEN <<row_to_entry(CHOOSE r \in db : r.id = memory_id)>>
    ELSE <<>>

sqlite_update(db, memory_id, entry) == sqlite_store(db, entry)

sqlite_delete(db, memory_id) == {r \in db : r.id # memory_id}

\* DELETE ... WHERE expires_at IS NOT NULL AND expires_at < now
sqlite_cleanup_expired(db, t) ==
    {r \in db : ~(r.expires_at # NoTime /\ r.expires_at < t)}

(* RedisMemoryStore: data holds the value of every key memory:{id},       *)
(* expiry the time at which a key with a time to live goes away, index     *)
(* the members of the sets memory_index:{kind}:{value}                     *)

\* the id under each index set that _create_indexes adds to
indexes_of(entry) ==
    {<<"agent", entry.agent_id, entry.id>>, <<"type", entry.type, entry.id>>}
    \cup (IF entry.thread_id # None
          THEN {<<"thread", entry.thread_id, entry.id>>} ELSE {})
    \cup {<<"tag", tag, entry.id>> : tag \in Elems(entry.tags)}

\* the keys that the store has not expired yet
redis_exists(r, memory_id) == \E e \in r.data : e.id = memory_id

redis_retrieve(r, memory_id) ==
    IF redis_exists(r, memory_id)
    THEN <<CHOOSE e \in r.data : e.id = memory_id>>
    ELSE <<>>

\* SET drops the key's time to live; EXPIRE is called only when the whole
\* seconds left until expires_at are more than 0
redis_store(r, entry, t) ==
    LET ttl == IntSeconds(entry.expires_at - t)
    IN [data |-> {e \in r.data : e.id # entry.id} \cup {entry},
        expiry |-> {x \in r.expiry : x[1] # entry.id}
                   \cup (IF entry.expires_at # NoTime /\ ttl > 0
                         THEN {<<entry.id, t + ttl * TicksPerSecond>>} ELSE {}),
        index |-> r.index \cup indexes_of(entry)]

_remove_indexes(r, entry) == [r EXCEPT !.index = @ \ indexes_of(entry)]

redis_update(r, memory_id, entry, t) ==
    IF ~redis_exists(r, memory_id) THEN r
    ELSE redis_store(_remove_indexes(r, redis_retrieve(r, memory_id)[1]), entry, t)

redis_delete(r, memory_id) ==
    IF ~redis_exists(r, memory_id) THEN r
    ELSE LET r2 == _remove_indexes(r, redis_retrieve(r, memory_id)[1])
         IN [r2 EXCEPT !.data = {e \in @ : e.id # memory_id},
                       !.expiry = {x \in @ : x[1] # memory_id}]

\* the store's own expiry of the keys whose time to live has run out;
\* the index sets keep their members
redis_expire_keys(r, t) ==
    LET gone == {x[1] : x \in {y \in r.expiry : y[2] <= t}}
    IN [r EXCEPT !.data = {e \in @ : e.id \notin gone},
                 !.expiry = {x \in @ : x[1] \notin gone}]

(* search of the two stores *)

\* MemorySearchQuery, with the defaults of its fields
MemorySearchQuery(query, memory_types, agent_ids, thread_id, tags, start_date, limit, min_relevance) ==
    [query |-> query, memory_types |-> memory_types, agent_ids |-> agent_ids,
     thread_id |-> thread_id, tags |-> tags, start_date |-> start_date,
     end_date |-> NoTime, limit |-> limit, min_relevance |-> min_relevance]

\* the text occurs in the content (LIKE %text%, text.lower() in content.lower())
Contains(content, text) == \E i \in 1..Len(content) : content[i].text = text

\* e comes before f in the order by relevance, then by timestamp, both
\* descending; among equals the order is the one the store happens to
\* produce, given by tie
Before(e, f, tie) ==
    \/ e.relevance_score > f.relevance_score
    \/ /\ e.relevance_score = f.relevance_score
       /\ \/ e.timestamp > f.timestamp
          \/ e.timestamp = f.timestamp /\ tie[e.id] < tie[f.id]

\* the entries of S in that order: the k-th is the one that k - 1 come before
SortedBy(S, tie) ==
    LET rank == [e \in S |-> Cardinality({f \in S : Before(f, e, tie)})]
    IN [k \in 1..Cardinality(S) |-> CHOOSE e \in S : rank[e] = k - 1]

\* seq[:limit]
Limit(seq, limit) == SubSeq(seq, 1, Min(limit, Len(seq)))

\* the SELECT that search builds: tags and min_relevance are not in it
sqlite_search(db, q, tie) ==
    LET rows == {r \in db :
                   /\ q.agent_ids # <<>> => r.agent_id \in Elems(q.agent_ids)
                   /\ q.memory_types # <<>> => r.type \in Elems(q.memory_types)
                   /\ q.thread_id # None => r.thread_id = q.thread_id
                   /\ q.query # "" => Contains(r.content, q.query)
                   /\ q.start_date # NoTime => r.timestamp >= q.start_date
                   /\ q.end_date # NoTime => r.timestamp <= q.end_date}
    IN Limit(SortedBy({row_to_entry(r) : r \in rows}, tie), q.limit)

\* smembers of one index set
IndexSet(r, key) == {x[3] : x \in {y \in r.index : y[1] = key[1] /\ y[2] = key[2]}}

\* the index sets that _get_candidate_ids intersects: one per agent id, one
\* per memory type, the thread's, one per tag
sets_to_intersect(q) ==
    {<<"agent", a>> : a \in Elems(q.agent_ids)}
    \cup {<<"type", t>> : t \in Elems(q.memory_types)}
    \cup (IF q.thread_id # None THEN {<<"thread", q.thread_id>>} ELSE {})
    \cup {<<"tag", t>> : t \in Elems(q.tags)}

_get_candidate_ids(r, q) ==
    IF sets_to_intersect(q) # {}
    THEN {i \in {x[3] : x \in r.index} :
            \A key \in sets_to_intersect(q) : i \in IndexSet(r, key)}
    ELSE {e.id : e \in r.data}

_matches_query(entry, q) ==
    /\ q.query # "" => Contains(entry.content, q.query)
    /\ q.start_date # NoTime => entry.timestamp >= q.start_date
    /\ q.end_date # NoTime => entry.timestamp <= q.end_date
    /\ entry.relevance_score >= q.min_relevance

redis_search(r, q, tie) ==
    LET candidate_ids == _get_candidate_ids(r, q)
        memories == {e \in r.data :
                       e.id \in candidate_ids /\ _matches_query(e, q)}
    IN Limit(SortedBy(memories, tie), q.limit)

(* Inputs of the memory managers *)

\* the arguments of a call of remember; ttl is <<>> when it is not given,
\* the content is a text of one line
RememberCalls ==
    {[content |-> Text("c1"), agent_id |-> "a1", memory_type |-> SHORT_TERM,
      thread_id |-> "t1", tags |-> <<"x">>, ttl |-> <<>>],
     [content |-> Text("c2"), agent_id |-> "a1", memory_type |-> SHORT_TERM,
      thread_id |-> "t1", tags |-> <<>>, ttl |-> <<1>>],
     [content |-> Text("c1"), agent_id |-> "a2", memory_type |-> LONG_TERM,
      thread_id |-> None, tags |-> <<"x", "y">>, ttl |-> <<0>>]}

\* the queries searched for
Queries ==
    {MemorySearchQuery("", <<>>, <<>>, None, <<>>, NoTime, 10, 0),
     MemorySearchQuery("", <<SHORT_TERM>>, <<"a1">>, "t1", <<>>, NoTime, 10, 0),
     MemorySearchQuery("c1", <<>>, <<"a1", "a2">>, None, <<"x">>, NoTime, 1, 0)}

\* the orders in which a store can produce entries that the sort leaves equal
TieOrders == {f \in [MemoryIds -> MemoryIds] : \A i, j \in MemoryIds : f[i] = f[j] => i = j}

(* The Memory manager *)

\* ttl or self.default_ttl
ttl_or_default(ttl) == IF ttl = <<>> THEN DefaultTtl
                       ELSE IF ttl[1] = 0 THEN DefaultTtl ELSE ttl[1]

\* the entry that remember builds at time t
remember_entry(call, memory_id, t) ==
    LET ttl == ttl_or_default(call.ttl)
    IN MemoryEntry(memory_id, call.memory_type, call.content, call.agent_id,
                   call.thread_id, call.tags, t,
                   IF ttl > 0 THEN t + ttl * TicksPerSecond ELSE NoTime)

\* the ids that uuid4 has returned
UsedIds == {l.id : l \in mhist.log}

\* uuid4 returns an id not seen before: the ids are numbered as they come
FreshIds == {i \in MemoryIds : i = Cardinality(UsedIds) + 1}

\* the record of a call of remember at time t that returned memory_id
Logs(call, memory_id, t) ==
    [id |-> memory_id, content |-> call.content, agent_id |-> call.agent_id,
     memory_type |-> call.memory_type, thread_id |-> call.thread_id,
     tags |-> call.tags, ttl |-> call.ttl, at |-> t]

\* remember builds the entry and stores it; the clock may have moved on by
\* d ticks when the store reads it
remember(call, memory_id, d) ==
    /\ memory_id \in FreshIds
    /\ now + d <= MaxTime
    /\ LET entry == remember_entry(call, memory_id, now)
       IN /\ sqlite' = sqlite_store(sqlite, entry)
          /\ redis' = redis_store(redis_expire_keys(redis, now + d), entry, now + d)
    /\ now' = now + d
    /\ ret' = [NoRet EXCEPT !.op = "remember", !.id = memory_id,
                            !.ok_sqlite = TRUE, !.ok_redis = TRUE]
    /\ mhist' = [mhist EXCEPT !.log = @ \cup {Logs(call, memory_id, now)}]
    /\ UNCHANGED nonmemory

\* the entry that recall hands to update and returns
recalled_same_count(entry, t) == [entry EXCEPT !.last_accessed = t]

recalled(entry, t) ==
    [entry EXCEPT !.access_count = @ + 1, !.last_accessed = t]

\* the access_count of the entry retrieved, 0 when there is none
CountOf(found) == IF found = <<>> THEN 0 ELSE found[1].access_count

recall(memory_id) ==
    /\ CountOf(sqlite_retrieve(sqlite, memory_id)) < MaxAccess
    /\ CountOf(redis_retrieve(redis, memory_id)) < MaxAccess
    /\ LET found_s == sqlite_retrieve(sqlite, memory_id)
           found_r == redis_retrieve(redis, memory_id)
           out_s == IF found_s = <<>> THEN <<>> ELSE <<recalled(found_s[1], now)>>
           out_r == IF found_r = <<>> THEN <<>> ELSE <<recalled(found_r[1], now)>>
       IN /\ sqlite' = IF out_s = <<>> THEN sqlite
                       ELSE sqlite_update(sqlite, memory_id, out_s[1])
          /\ redis' = IF out_r = <<>> THEN redis
                      ELSE redis_update(redis, memory_id, out_r[1], now)
          /\ ret' = [NoRet EXCEPT !.op = "recall", !.id = memory_id,
                                  !.out_sqlite = out_s, !.out_redis = out_r,
                                  !.ok_sqlite = out_s # <<>>, !.ok_redis = out_r # <<>>,
                                  !.before = <<CountOf(found_s), CountOf(found_r)>>]
    /\ UNCHANGED <<now, mhist>>
    /\ UNCHANGED nonmemory

forget(memory_id) ==
    /\ sqlite' = sqlite_delete(sqlite, memory_id)
    /\ redis' = redis_delete(redis, memory_id)
    /\ ret' = [NoRet EXCEPT !.op = "forget", !.id = memory_id,
                            !.ok_sqlite = (sqlite_retrieve(sqlite, memory_id) # <<>>),
                            !.ok_redis = redis_exists(redis, memory_id)]
    /\ UNCHANGED <<now, mhist>>
    /\ UNCHANGED nonmemory

\* store.search of both stores, as search_memories and the API call it
search(q, tie_s, tie_r) ==
    /\ ret' = [NoRet EXCEPT !.op = "search",
                            !.out_sqlite = sqlite_search(sqlite, q, tie_s),
                            !.out_redis = redis_search(redis, q, tie_r),
                            !.ok_sqlite = TRUE, !.ok_redis = TRUE]
    /\ UNCHANGED <<now, sqlite, redis, mhist>>
    /\ UNCHANGED nonmemory

\* the Redis store's cleanup_expired only counts
cleanup_expired ==
    /\ sqlite' = sqlite_cleanup_expired(sqlite, now)
    /\ ret' = [NoRet EXCEPT !.op = "cleanup_expired",
                            !.ok_sqlite = TRUE, !.ok_redis = TRUE]
    /\ UNCHANGED <<now, redis, mhist>>
    /\ UNCHANGED nonmemory

\* the clock moves on; Redis expires the keys whose time has come
tick ==
    /\ now < MaxTime
    /\ now' = now + 1
    /\ redis' = redis_expire_keys(redis, now + 1)
    /\ ret' = NoRet
    /\ UNCHANGED <<sqlite, mhist>>
    /\ UNCHANGED nonmemory

\* the managers at work, from empty stores; the graph is idle
InitMemory == Init

NextMemory ==
    \/ \E call \in RememberCalls, i \in MemoryIds, d \in 0..1 : remember(call, i, d)
    \/ \E i \in MemoryIds : recall(i)
    \/ \E i \in MemoryIds : forget(i)
    \/ \E q \in Queries, tie_s \in TieOrders, tie_r \in TieOrders : search(q, tie_s, tie_r)
    \/ cleanup_expired
    \/ tick

SpecMemory == InitMemory /\ [][NextMemory]_vars

\* remember and recall alone, while the clock runs: the first
\* MaxRoundTrips entries remembered
RoundTripIds == 1..MaxRoundTrips

NextRoundTrip ==
    \/ \E call \in RememberCalls, i \in RoundTripIds, d \in 0..1 : remember(call, i, d)
    \/ \E i \in MemoryIds : recall(i)
    \/ tick

SpecRoundTrip == InitMemory /\ [][NextRoundTrip]_vars

(* consolidate_memories *)

\* the most entries of one agent and thread that the stores start with, short
\* of the search limit, and the most consolidations
MaxConsolidate == 12
MaxConsolidations == 1

\* limit=100 and timedelta(hours=1) of the query that consolidate_memories makes
ConsolidateLimit == 100
ConsolidateHours == 1

ConsolidateWindow == ConsolidateHours * 3600 * TicksPerSecond

\* f"[{m.timestamp}] {m.content}": the stamp goes before the first line
stamped(m) == <<Line(m.timestamp, m.content[1].text)>> \o Tail(m.content)

\* sorted(memories, key=lambda x: x.timestamp): ascending and stable
sorted_by_timestamp(memories) ==
    LET rank == [i \in 1..Len(memories) |->
                   Cardinality({j \in 1..Len(memories) :
                       \/ memories[j].timestamp < memories[i].timestamp
                       \/ memories[j].timestamp = memories[i].timestamp /\ j < i})]
    IN [k \in 1..Len(memories) |->
          memories[CHOOSE i \in 1..Len(memories) : rank[i] = k - 1]]

\* "\n\n".join of the stamped contents, joined by halves: an empty line
\* stands between two of them
RECURSIVE joined(_)
joined(memories) ==
    IF memories = <<>> THEN <<>>
    ELSE IF Len(memories) = 1 THEN stamped(memories[1])
    ELSE LET half == Len(memories) \div 2
         IN joined(SubSeq(memories, 1, half))
            \o <<Line(NoTime, "")>>
            \o joined(SubSeq(memories, half + 1, Len(memories)))

\* the call of remember that consolidate_memories makes for the memories found
consolidated_call(agent_id, thread_id, memories) ==
    [content |-> <<Line(NoTime, "Consolidated memories:")>>
                 \o joined(sorted_by_timestamp(memories)),
     agent_id |-> agent_id, memory_type |-> LONG_TERM, thread_id |-> thread_id,
     tags |-> <<"consolidated">>, ttl |-> <<0>>]

\* the original as consolidate_memories marks it
flagged(memory, memory_id) ==
    [memory EXCEPT !.consolidated = TRUE, !.consolidated_into = memory_id]

\* the loop that updates the memories found, one store each: the first half
\* of the list, then the second
RECURSIVE sqlite_update_each(_, _, _)
sqlite_update_each(db, memories, memory_id) ==
    IF memories = <<>> THEN db
    ELSE IF Len(memories) = 1
    THEN sqlite_update(db, memories[1].id, flagged(memories[1], memory_id))
    ELSE LET half == Len(memories) \div 2
         IN sqlite_update_each(
                sqlite_update_each(db, SubSeq(memories, 1, half), memory_id),
                SubSeq(memories, half + 1, Len(memories)), memory_id)

RECURSIVE redis_update_each(_, _, _, _)
redis_update_each(r, memories, memory_id, t) ==
    IF memories = <<>> THEN r
    ELSE IF Len(memories) = 1
    THEN redis_update(r, memories[1].id, flagged(memories[1], memory_id), t)
    ELSE LET half == Len(memories) \div 2
         IN redis_update_each(
                redis_update_each(r, SubSeq(memories, 1, half), memory_id, t),
                SubSeq(memories, half + 1, Len(memories)), memory_id, t)

\* the ids in the order of their creation, as the order among equals
ConsolidateIds == 1..(ConsolidateLimit + MaxConsolidate)
CreationOrder == [i \in ConsolidateIds |-> i]

\* the query of consolidate_memories at time t
consolidate_query(agent_id, thread_id, t) ==
    MemorySearchQuery("", <<SHORT_TERM>>, <<agent_id>>, thread_id, <<>>,
                      t - ConsolidateWindow, ConsolidateLimit, 0)

\* the consolidations made so far
Consolidations == {l \in mhist.log : l.tags = <<"consolidated">>}

\* consolidate_memories on both stores; nothing is written when the search
\* finds nothing
consolidate_memories(agent_id, thread_id, memory_id) ==
    /\ memory_id = Cardinality(UsedIds) + 1
    /\ Cardinality(Consolidations) < MaxConsolidations
    /\ LET q == consolidate_query(agent_id, thread_id, now)
           found_s == sqlite_search(sqlite, q, CreationOrder)
           found_r == redis_search(redis, q, CreationOrder)
           call_s == consolidated_call(agent_id, thread_id, found_s)
           call_r == consolidated_call(agent_id, thread_id, found_r)
       IN /\ sqlite' = IF found_s = <<>> THEN sqlite
                       ELSE sqlite_update_each(
                                sqlite_store(sqlite, remember_entry(call_s, memory_id, now)),
                                found_s, memory_id)
          /\ redis' = IF found_r = <<>> THEN redis
                      ELSE redis_update_each(
                               redis_store(redis_expire_keys(redis, now),
                                           remember_entry(call_r, memory_id, now), now),
                               found_r, memory_id, now)
          /\ ret' = [NoRet EXCEPT !.op = "consolidate", !.id = memory_id,
                                  !.out_sqlite = found_s, !.out_redis = found_r,
                                  !.ok_sqlite = found_s # <<>>,
                                  !.ok_redis = found_r # <<>>,
                                  !.args = <<agent_id, thread_id>>]
          /\ mhist' = IF found_s = <<>> /\ found_r = <<>> THEN mhist
                      ELSE [mhist EXCEPT !.log = @ \cup {Logs(call_s, memory_id, now)}]
    /\ UNCHANGED now
    /\ UNCHANGED nonmemory

\* the stores and the log after the calls of remember in seq, each a pair of
\* the call and its time, made on empty stores with the default time to
\* live: the i-th call returns the id i, no entry replaces another, and each
\* key's time to live ends at the entry's expires_at
remembered(seq) ==
    LET entries == {remember_entry(seq[i][1], i, seq[i][2]) : i \in 1..Len(seq)}
    IN [sqlite |-> {entry_to_row(e) : e \in entries},
        redis |-> redis_expire_keys(
                      [data |-> entries,
                       expiry |-> {<<e.id, e.expires_at>> : e \in entries},
                       index |-> UNION {indexes_of(e) : e \in entries}],
                      seq[Len(seq)][2]),
        log |-> {Logs(seq[i][1], i, seq[i][2]) : i \in 1..Len(seq)}]

\* a short-term entry of the agent and thread, and the entries beside it: one
\* of more than an hour ago, one of another agent, one of another thread, one
\* long-term
ShortTermCall(agent_id, thread_id, memory_type) ==
    [content |-> Text("c1"), agent_id |-> agent_id, memory_type |-> memory_type,
     thread_id |-> thread_id, tags |-> <<>>, ttl |-> <<>>]

Beside == {"old", "agent", "thread", "type"}

\* n entries of agent a1 and thread t1, one per tick, and those beside them
ConsolidateCalls(n, beside) ==
    LET start == IF "old" \in beside THEN ConsolidateWindow + 1 ELSE 0
    IN (IF "old" \in beside THEN <<<<ShortTermCall("a1", "t1", SHORT_TERM), 1>>>> ELSE <<>>)
       \o [i \in 1..n |-> <<ShortTermCall("a1", "t1", SHORT_TERM), start + i>>]
       \o (IF "agent" \in beside
           THEN <<<<ShortTermCall("a2", "t1", SHORT_TERM), start + n + 1>>>> ELSE <<>>)
       \o (IF "thread" \in beside
           THEN <<<<ShortTermCall("a1", "t2", SHORT_TERM), start + n + 1>>>> ELSE <<>>)
       \o (IF "type" \in beside
           THEN <<<<ShortTermCall("a1", "t1", LONG_TERM), start + n + 1>>>> ELSE <<>>)

\* stores that hold up to MaxConsolidate entries to consolidate, or one more
\* than the search returns
InitConsolidate ==
    /\ pc = "idle"
    /\ state = initial_state("task", 1, EmptyContext)
    /\ active = {}
    /\ running = {}
    /\ pending = {}
    /\ steps = 0
    /\ result = NoResult
    /\ response = NoResult
    /\ exc = None
    /\ hist = NoHist
    /\ \E n \in (1..MaxConsolidate) \cup {ConsolidateLimit + 1} :
       \E beside \in (IF n <= MaxConsolidate THEN SUBSET Beside ELSE {{}}) :
          LET calls == ConsolidateCalls(n, beside)
              made == remembered(calls)
          IN /\ now = calls[Len(calls)][2] + 1
             /\ sqlite = made.sqlite
             /\ redis = made.redis
             /\ ret = NoRet
             /\ mhist = [log |-> made.log]
    /\ ApiInit
    /\ ServiceInit

NextConsolidate ==
    \E agent_id \in {"a1", "a2"}, thread_id \in {None, "t1"}, i \in ConsolidateIds :
        consolidate_memories(agent_id, thread_id, i)

SpecConsolidate == InitConsolidate /\ [][NextConsolidate]_vars

----------------------------------------------------------------------------
(* The HTTP application: the middleware authenticate and the routes behind  *)
(* it. What system.run does is the graph above; here a request that gets   *)
(* as far as calling it is marked as ran.                                   *)

\* the requests that one behaviour sends
MaxRequests == 2

\* status.HTTP_401_UNAUTHORIZED
HTTP_401_UNAUTHORIZED == 401

\* settings.api_key.get_secret_value()
settings_api_key == "secret"

\* the paths that authenticate lets through by name
ExemptPaths == {"/health", "/", "/api/docs", "/api/redoc"}

\* the paths that requests name, and those among them for which
\* path.startswith("/static") holds
Paths == ExemptPaths \cup {"/static/app.js", "/staticfiles", "/api/tasks", "/api/memories",
                           "/api/dashboard/stats", "/health/", "/nowhere"}
StaticPaths == {"/static/app.js", "/staticfiles"}

\* a key is absent, empty, the configured one, or another one
KeyValues == {None, "", settings_api_key, "wrong"}

\* the body is one that the handler's request model accepts, or not
Requests == [path : Paths, method : {"GET", "POST"}, header : KeyValues,
             query : KeyValues, body : {"valid", "invalid"}]

\* the key that authenticate compares: the header, or the query parameter
\* when the header is absent or empty
api_key_of(request) ==
    IF request.header \notin {None, ""} THEN request.header ELSE request.query

rejected_when_given(request) ==
    api_key_of(request) \notin {None, settings_api_key}

rejected(request) == api_key_of(request) # settings_api_key

skips_auth(request) == request.path \in ExemptPaths \/ request.path \in StaticPaths

\* the routes of the application: the handler and its method, and whether it
\* takes a body
Routes ==
    {[path |-> "/", method |-> "GET", handler |-> "root", body |-> FALSE],
     [path |-> "/health", method |-> "GET", handler |-> "health_check", body |-> FALSE],
     [path |-> "/api/docs", method |-> "GET", handler |-> "docs", body |-> FALSE],
     [path |-> "/api/redoc", method |-> "GET", handler |-> "redoc", body |-> FALSE],
     [path |-> "/api/tasks", method |-> "POST", handler |-> "submit_task", body |-> TRUE],
     [path |-> "/api/memories", method |-> "POST", handler |-> "get_memories", body |-> TRUE],
     [path |-> "/api/dashboard/stats", method |-> "GET",
      handler |-> "get_dashboard_stats", body |-> FALSE]}

\* what is behind the middleware: no route, a route of another method, a body
\* that the request model refuses, or the handler; ok tells whether a handler
\* that can answer with an error does not
call_next(request, ok) ==
    LET here == {r \in Routes : r.path = request.path}
        route == CHOOSE r \in here : TRUE
    IN IF here = {}
       THEN [status |-> 404, handler |-> None, ran |-> FALSE]
       ELSE IF route.method # request.method
       THEN [status |-> 405, handler |-> None, ran |-> FALSE]
       ELSE IF route.body /\ request.body = "invalid"
       THEN [status |-> 422, handler |-> None, ran |-> FALSE]
       ELSE [status |-> IF route.handler \in {"get_memories", "get_dashboard_stats"} /\ ~ok
                        THEN 500 ELSE 200,
             handler |-> route.handler,
             ran |-> route.handler = "submit_task"]

\* the middleware on one request, with all that it calls
authenticate(request, ok) ==
    /\ http.requests < MaxRequests
    /\ LET answer == IF skips_auth(request) THEN call_next(request, ok)
                     ELSE IF rejected(request)
                     THEN [status |-> HTTP_401_UNAUTHORIZED, handler |-> None, ran |-> FALSE]
                     ELSE call_next(request, ok)
       IN http' = [request |-> request, status |-> answer.status,
                   handler |-> answer.handler, ran |-> answer.ran,
                   requests |-> http.requests + 1]
    /\ UNCHANGED <<ws, tool>>
    /\ UNCHANGED nonapi

InitHttp == Init

NextHttp == \E request \in Requests, ok \in BOOLEAN : authenticate(request, ok)

SpecHttp == InitHttp /\ [][NextHttp]_vars

----------------------------------------------------------------------------
(* The WebSocket endpoint /ws: one connection, and the loop of             *)
(* websocket_endpoint on the frames that arrive on it. The handler is      *)
(* taken with the socket bound to its parameter.                           *)

\* the frames that one connection receives
MaxFrames == 3

\* what receive_json meets: a JSON object with or without the fields that
\* TaskRequest accepts, text that is not JSON, JSON that is not an object,
\* or the client's disconnect
Frames ==
    [kind : {"object"}, api_key : {None, "wrong", settings_api_key},
     fields : {"valid", "invalid"}]
    \cup [kind : {"not_json", "not_object", "disconnect"}, api_key : {None},
          fields : {"invalid"}]

\* the frames that the handler sends; the answer to a wrong key has no type
invalid_key == [type |-> None, task_id |-> 0]
task_started(task_id) == [type |-> "task_started", task_id |-> task_id]
task_completed_other_id(task_id) == [type |-> "task_completed", task_id |-> task_id + 1]
task_completed(task_id) == [type |-> "task_completed", task_id |-> task_id]
error == [type |-> "error", task_id |-> 0]

\* the except branch: the error frame reaches a client that is still there
on_exception_silent(sent, peer) == sent
on_exception(sent, peer) == IF peer = "connected" THEN Append(sent, error) ELSE sent

\* what one pass of the loop does with a frame: the frames the client gets,
\* whether system.run was called, the exception that ended the loop if any.
\* serialisable tells whether send_json can encode the result of the run,
\* leaves whether the client disconnects while the run is under way
reply(frame, task_id, serialisable, leaves) ==
    LET done(sent, ran, raised, left) ==
            [frame |-> frame, sent |-> sent, ran |-> ran, raised |-> raised,
             left |-> left]
    IN IF frame.kind = "disconnect"
       THEN done(on_exception(<<>>, "gone"), FALSE, "WebSocketDisconnect", TRUE)
       ELSE IF frame.kind = "not_json"
       THEN done(on_exception(<<>>, "connected"), FALSE, "JSONDecodeError", FALSE)
       ELSE IF frame.kind = "not_object"
       THEN done(on_exception(<<>>, "connected"), FALSE, "AttributeError", FALSE)
       ELSE IF frame.api_key # settings_api_key
       THEN done(<<invalid_key>>, FALSE, None, FALSE)
       ELSE IF frame.fields = "invalid"
       THEN done(on_exception(<<>>, "connected"), FALSE, "ValidationError", FALSE)
       ELSE IF leaves
       THEN done(on_exception(<<task_started(task_id)>>, "gone"), TRUE,
                 "WebSocketDisconnect", TRUE)
       ELSE IF ~serialisable
       THEN done(on_exception(<<task_started(task_id)>>, "connected"), TRUE,
                 "TypeError", FALSE)
       ELSE done(<<task_started(task_id), task_completed(task_id)>>, TRUE, None, FALSE)

\* websocket.accept()
websocket_connect ==
    /\ ws.state = "none"
    /\ ws' = [ws EXCEPT !.state = "open", !.peer = "connected"]
    /\ UNCHANGED <<http, tool>>
    /\ UNCHANGED nonapi

\* one pass of the loop, and the finally branch when an exception ends it
websocket_endpoint(frame, serialisable, leaves) ==
    /\ ws.state = "open"
    /\ Len(ws.replies) < MaxFrames
    /\ LET r == reply(frame, Len(ws.replies) + 1, serialisable, leaves)
       IN ws' = [state |-> IF r.raised # None THEN "closed" ELSE "open",
                 peer |-> IF r.left THEN "gone" ELSE "connected",
                 replies |-> Append(ws.replies, r)]
    /\ UNCHANGED <<http, tool>>
    /\ UNCHANGED nonapi

InitWebSocket == Init

NextWebSocket ==
    \/ websocket_connect
    \/ \E frame \in Frames, serialisable \in BOOLEAN, leaves \in BOOLEAN :
           websocket_endpoint(frame, serialisable, leaves)

SpecWebSocket == InitWebSocket /\ [][NextWebSocket]_vars

----------------------------------------------------------------------------
(* The tools: BaseAgent.use_tool as the agents call it, for the call sites *)
(* whose tool defines execute                                               *)

\* the calls of use_tool that one behaviour makes
MaxCalls == 2

\* ToolResult; output is present or None, error is a text or None
ToolResult(success, output, error_text) ==
    [success |-> success, output |-> output, error |-> error_text]

\* nothing was returned
NoToolResult == [success |-> FALSE, output |-> None, error |-> None]

\* the calls of use_tool in the agents: the agent, the tool, and the number
\* of arguments passed by position after the tool
CallSites ==
    {[at |-> "perplexity_agent.py:77", agent |-> "perplexity_research_agent",
      tool |-> "perplexity_sonar_pro", positional |-> 1],
     [at |-> "perplexity_agent.py:85", agent |-> "perplexity_research_agent",
      tool |-> "perplexity_sonar_pro", positional |-> 1],
     [at |-> "perplexity_agent.py:93", agent |-> "perplexity_research_agent",
      tool |-> "perplexity_sonar_pro", positional |-> 1],
     [at |-> "perplexity_agent.py:101", agent |-> "perplexity_research_agent",
      tool |-> "perplexity_sonar_pro", positional |-> 0],
     [at |-> "perplexity_agent.py:126", agent |-> "perplexity_research_agent",
      tool |-> "document_generator", positional |-> 0],
     [at |-> "regulatory.py:629", agent |-> "document_review_agent",
      tool |-> "document_generator", positional |-> 0],
     [at |-> "regulatory.py:645", agent |-> "document_review_agent",
      tool |-> "document_generator", positional |-> 0],
     [at |-> "regulatory.py:673", agent |-> "document_review_agent",
      tool |-> "document_generator", positional |-> 0]}

\* tool.execute(**kwargs): the body is inside try/except, so that a failure
\* of what it calls comes back as a result
execute(tool_name, external) ==
    IF external = "ok" THEN ToolResult(TRUE, "output", None)
    ELSE ToolResult(FALSE, None, "failed")

\* the call of remember at the end of use_tool
tool_use_call(site, tool_result) ==
    [content |-> <<Line(NoTime, <<"Used tool", site.tool,
                                  IF tool_result.success THEN tool_result.output ELSE tool_result.error>>)>>,
     agent_id |-> site.agent, memory_type |-> SHORT_TERM, thread_id |-> None,
     tags |-> <<>>, ttl |-> <<>>]

\* one call of use_tool from a call site: use_tool takes the tool alone by
\* position, so a call with one more raises before the tool runs; the
\* memory store may be out of reach when remember writes to it
use_tool(site, external, store) ==
    /\ Len(tool.calls) < MaxCalls
    /\ LET fits == site.positional = 0
           tool_result == execute(site.tool, external)
           stored == fits /\ store = "up"
           memory_id == Cardinality(UsedIds) + 1
           entry == remember_entry(tool_use_call(site, tool_result), memory_id, now)
       IN /\ tool' = [calls |-> Append(tool.calls,
                         [site |-> site,
                          external |-> IF fits THEN external ELSE None,
                          executed |-> fits,
                          returned |-> IF stored THEN tool_result ELSE NoToolResult,
                          raised |-> IF ~fits THEN "TypeError"
                                     ELSE IF store = "down" THEN "ConnectionError"
                                     ELSE None])]
          /\ sqlite' = IF stored THEN sqlite_store(sqlite, entry) ELSE sqlite
          /\ redis' = IF stored THEN redis_store(redis_expire_keys(redis, now), entry, now)
                      ELSE redis
          /\ mhist' = IF stored
                      THEN [mhist EXCEPT !.log = @ \cup
                               {Logs(tool_use_call(site, tool_result), memory_id, now)}]
                      ELSE mhist
    /\ UNCHANGED <<now, ret>>
    /\ UNCHANGED <<http, ws>>
    /\ UNCHANGED <<graphvars, svcvars>>

InitTools == Init

NextTools ==
    \E site \in CallSites, external \in {"ok", "fails"}, store \in {"up", "down"} :
        use_tool(site, external, store)

SpecTools == InitTools /\ [][NextTools]_vars

----------------------------------------------------------------------------
(* RegulationDatabase: the tables regulations and compliance_templates,    *)
(* add_regulation, add_template and populate_initial_data                  *)

\* the calls of populate_initial_data, and of add_regulation and
\* add_template from elsewhere, that one behaviour makes
MaxPopulate == 3
MaxAdded == 2

\* sample_regulations and sample_templates, by agency and number or name
\* (the third number is written without its cedilla and tilde)
sample_regulations ==
    <<[agency |-> "ANVISA", number |-> "RDC 301/2019"],
      [agency |-> "ANVISA", number |-> "RDC 430/2020"],
      [agency |-> "ANATEL", number |-> "Resolucao 715/2019"]>>

sample_templates ==
    <<[name |-> "Checklist BPF ANVISA", category |-> "BPF", agency |-> "ANVISA"]>>

\* the primary key that the table gives to the next row
next_id(rows) == IF rows = {} THEN 1
                 ELSE (CHOOSE i \in {r.id : r \in rows} : \A r \in rows : r.id <= i) + 1

\* add_regulation: number is unique, so the commit of a second row with the
\* same number raises and the table stays as it was
regulation_exists(rows, number) == \E r \in rows : r.number = number

add_regulation_rows(rows, reg) ==
    IF regulation_exists(rows, reg.number) THEN rows
    ELSE rows \cup {[id |-> next_id(rows), agency |-> reg.agency, number |-> reg.number]}

\* add_template: no column of compliance_templates but the key is unique
add_template_rows(rows, template) ==
    rows \cup {[id |-> next_id(rows), name |-> template.name,
                category |-> template.category, agency |-> template.agency]}

\* the loops of populate_initial_data; what add_regulation and add_template
\* raise is caught and logged
RECURSIVE add_each_regulation(_, _)
add_each_regulation(rows, regs) ==
    IF regs = <<>> THEN rows
    ELSE add_each_regulation(add_regulation_rows(rows, Head(regs)), Tail(regs))

RECURSIVE add_each_template(_, _)
add_each_template(rows, templates) ==
    IF templates = <<>> THEN rows
    ELSE add_each_template(add_template_rows(rows, Head(templates)), Tail(templates))

populate_initial_data ==
    /\ regdb.calls < MaxPopulate
    /\ LET regulations == add_each_regulation(regdb.regulations, sample_regulations)
           templates == add_each_template(regdb.compliance_templates, sample_templates)
       IN regdb' = [regulations |-> regulations,
                    compliance_templates |-> templates,
                    calls |-> regdb.calls + 1,
                    first |-> IF regdb.calls = 0 THEN <<regulations, templates>>
                              ELSE regdb.first,
                    alone |-> regdb.alone]
    /\ UNCHANGED <<calc, mon, procs>>
    /\ UNCHANGED nonsvc

\* the rows that other callers add
Added(rows) == {r \in rows : r.agency = "other"}

\* add_regulation from elsewhere; alone tells that populate_initial_data has
\* been the only writer since its first call
add_regulation(number) ==
    /\ Cardinality(Added(regdb.regulations))
         + Cardinality(Added(regdb.compliance_templates)) < MaxAdded
    /\ ~regulation_exists(regdb.regulations, number)
    /\ regdb' = [regdb EXCEPT
                    !.regulations = add_regulation_rows(@, [agency |-> "other",
                                                            number |-> number]),
                    !.alone = @ /\ regdb.calls = 0]
    /\ UNCHANGED <<calc, mon, procs>>
    /\ UNCHANGED nonsvc

add_template(name) ==
    /\ Cardinality(Added(regdb.regulations))
         + Cardinality(Added(regdb.compliance_templates)) < MaxAdded
    /\ regdb' = [regdb EXCEPT
                    !.compliance_templates =
                        add_template_rows(@, [name |-> name, category |-> "BPF",
                                              agency |-> "other"]),
                    !.alone = @ /\ regdb.calls = 0]
    /\ UNCHANGED <<calc, mon, procs>>
    /\ UNCHANGED nonsvc

InitDatabase == Init

NextDatabase ==
    \/ populate_initial_data
    \/ \E number \in {"RDC 301/2019", "Resolucao 715/2019", "RDC 1/2024"} :
           add_regulation(number)
    \/ \E name \in {"Checklist BPF ANVISA", "Checklist LGPD"} : add_template(name)

SpecDatabase == InitDatabase /\ [][NextDatabase]_vars

----------------------------------------------------------------------------
(* PerplexitySonarProTool._calculate_confidence: the confidence of a       *)
(* search result from its processed citations. Scores are in hundredths.   *)
(* Of a citation the model keeps its source_type, its regulatory_body and  *)
(* what _is_recent makes of its published_date.                            *)

MaxCitations == 3

PerplexityBase == 50
OfficialBoost == 5
OfficialCap == 30
RegulatoryBoost == 3
RegulatoryCap == 15
RecentBoost == 1
RecentCap == 5
MaxConfidence == 100

SourceTypes == {"official", "general"}
RegulatoryBodies == {"none", "ANVISA"}
PublishedDates == {"none", "this year", "long ago"}

Citations == [source_type : SourceTypes, regulatory_body : RegulatoryBodies, published_date : PublishedDates]

CitationLists == UNION {[1..n -> Citations] : n \in 0..MaxCitations}

_is_recent(date_str) == date_str = "this year"

Max(a, b) == IF a >= b THEN a ELSE b

sum_if(citations, ok(_)) == Cardinality({i \in 1..Len(citations) : ok(citations[i])})

is_official(c) == c.source_type = "official"

has_regulatory_body(c) == c.regulatory_body # "none"

is_recent(c) == _is_recent(c.published_date)

boosted(citations) ==
    PerplexityBase
    + Min(OfficialCap, sum_if(citations, is_official) * OfficialBoost)
    + Min(RegulatoryCap, sum_if(citations, has_regulatory_body) * RegulatoryBoost)
    + Min(RecentCap, sum_if(citations, is_recent) * RecentBoost)

_calculate_confidence_base_when_empty(citations) ==
    Min(MaxConfidence, Max(0, boosted(citations)))

_calculate_confidence(citations) ==
    IF citations = <<>>
    THEN 0
    ELSE Min(MaxConfidence, Max(0, boosted(citations)))

calculate_confidence(citations) ==
    /\ ~calc.done
    /\ calc' = [citations |-> citations,
                confidence |-> _calculate_confidence(citations),
                done |-> TRUE]
    /\ UNCHANGED <<regdb, mon, procs>>
    /\ UNCHANGED nonsvc

InitConfidence == Init

NextConfidence == \E citations \in CitationLists : calculate_confidence(citations)

SpecConfidence == InitConfidence /\ [][NextConfidence]_vars

----------------------------------------------------------------------------
(* MonitoringService (src/api/monitoring.py): connect, disconnect,         *)
(* broadcast_event, start_execution, update_execution and                  *)
(* broadcast_state_update, called by request handlers and monitoring       *)
(* sockets that run as tasks of one event loop. A step of the model is     *)
(* what a task does between two awaits. Messages are numbered in the order *)
(* in which their broadcasts begin.                                        *)

MaxMessages == 2

\* list.remove(x): the list without its first x; ValueError when x is not in it
Has(list, x) == \E i \in 1..Len(list) : list[i] = x

list_remove_nothing(list, x) == list

list_remove(list, x) ==
    LET first == CHOOSE i \in 1..Len(list) : list[i] = x /\ \A j \in 1..(i - 1) : list[j] # x
    IN [i \in 1..(Len(list) - 1) |-> IF i < first THEN list[i] ELSE list[i + 1]]

\* for conn in disconnected: self.active_connections.remove(conn)
\* gives the list, the removals done, and whether a remove raised
RECURSIVE remove_each(_, _, _)
remove_each(list, disconnected, done) ==
    IF disconnected = <<>>
    THEN [active_connections |-> list, done |-> done, raised |-> FALSE]
    ELSE IF ~Has(list, Head(disconnected))
         THEN [active_connections |-> list, done |-> done, raised |-> TRUE]
         ELSE remove_each(list_remove(list, Head(disconnected)), Tail(disconnected),
                          Append(done, Head(disconnected)))

\* connect: accept, register, send the snapshot of the executions
connect(w) ==
    /\ mon.sockets[w] = "none"
    /\ mon' = [mon EXCEPT !.sockets[w] = "open",
                          !.active_connections = Append(@, w)]
    /\ UNCHANGED <<regdb, calc, procs>>
    /\ UNCHANGED nonsvc

\* the client of a monitoring socket goes away: from now on a send to the
\* socket raises and receive_text raises WebSocketDisconnect
client_closes(w) ==
    /\ mon.sockets[w] = "open"
    /\ mon' = [mon EXCEPT !.sockets[w] = "closed"]
    /\ UNCHANGED <<regdb, calc, procs>>
    /\ UNCHANGED nonsvc

\* websocket_endpoint: receive_text raised WebSocketDisconnect, disconnect
disconnect(w) ==
    /\ mon.sockets[w] = "closed"
    /\ IF Has(mon.active_connections, w)
       THEN mon' = [mon EXCEPT !.sockets[w] = "gone",
                               !.active_connections = list_remove(@, w),
                               !.removed[w] = @ + 1]
       ELSE mon' = [mon EXCEPT !.sockets[w] = "gone",
                               !.raised = @ \cup {<<"disconnect", w>>}]
    /\ UNCHANGED <<regdb, calc, procs>>
    /\ UNCHANGED nonsvc

Broadcasting(h, op, message) ==
    [NoBroadcast EXCEPT !.op = op, !.status = "sending", !.message = message]

\* start_execution of submit_task: a fresh execution id, its empty history,
\* then broadcast_event of the execution_started event up to its loop
start_execution(h) ==
    /\ mon.handlers[h].status # "sending"
    /\ mon.messages < MaxMessages
    /\ h \notin mon.executions
    /\ LET message == mon.messages + 1
       IN mon' = [mon EXCEPT !.executions = @ \cup {h},
                             !.events[h] = <<message>>,
                             !.messages = message,
                             !.handlers[h] = Broadcasting(h, "broadcast_event", message)]
    /\ UNCHANGED <<regdb, calc, procs>>
    /\ UNCHANGED nonsvc

\* broadcast_event of an event of the run that submit_task awaits, which
\* names an execution id (named) or none, up to its loop
broadcast_event(h, named) ==
    /\ mon.handlers[h].status # "sending"
    /\ mon.handlers[h].op # "broadcast_state_update"
    /\ mon.messages < MaxMessages
    /\ h \in mon.executions
    /\ LET message == mon.messages + 1
       IN mon' = [mon EXCEPT !.events[h] = IF named THEN Append(@, message) ELSE @,
                             !.messages = message,
                             !.handlers[h] = [Broadcasting(h, "broadcast_event", message)
                                                EXCEPT !.stored_after = ~named]]
    /\ UNCHANGED <<regdb, calc, procs>>
    /\ UNCHANGED nonsvc

\* update_execution of submit_task: broadcast_state_update up to its loop
update_execution(h) ==
    /\ mon.handlers[h].status # "sending"
    /\ mon.handlers[h].op # "broadcast_state_update"
    /\ mon.messages < MaxMessages
    /\ h \in mon.executions
    /\ LET message == mon.messages + 1
       IN mon' = [mon EXCEPT !.messages = message,
                             !.handlers[h] = Broadcasting(h, "broadcast_state_update", message)]
    /\ UNCHANGED <<regdb, calc, procs>>
    /\ UNCHANGED nonsvc

\* one turn of "for connection in self.active_connections": the list
\* iterator gives the element at its position in the list as it is now
send_json(h) ==
    /\ mon.handlers[h].status = "sending"
    /\ mon.handlers[h].it < Len(mon.active_connections)
    /\ LET connection == mon.active_connections[mon.handlers[h].it + 1]
       IN IF mon.sockets[connection] = "open"
          THEN mon' = [mon EXCEPT !.handlers[h].it = @ + 1,
                                  !.handlers[h].succeeded = @ \cup {connection},
                                  !.received[connection] = @ \cup {mon.handlers[h].message},
                                  !.twice = IF mon.handlers[h].message \in mon.received[connection]
                                            THEN @ \cup {<<connection, mon.handlers[h].message>>}
                                            ELSE @]
          ELSE mon' = [mon EXCEPT !.handlers[h].it = @ + 1,
                                  !.handlers[h].disconnected = Append(@, connection)]
    /\ UNCHANGED <<regdb, calc, procs>>
    /\ UNCHANGED nonsvc

\* the iterator is exhausted: clean up the disconnected clients, return
clean_up(h) ==
    /\ mon.handlers[h].status = "sending"
    /\ mon.handlers[h].it >= Len(mon.active_connections)
    /\ LET cleaned == remove_each(mon.active_connections, mon.handlers[h].disconnected, <<>>)
           stored == \/ mon.handlers[h].op # "broadcast_event"
                     \/ mon.handlers[h].stored_after
                     \/ Has(mon.events[h], mon.handlers[h].message)
       IN mon' = [mon EXCEPT
                    !.active_connections = cleaned.active_connections,
                    !.removed = [w \in Sockets |-> IF Has(cleaned.done, w) THEN @[w] + 1 ELSE @[w]],
                    !.raised = IF cleaned.raised THEN @ \cup {<<mon.handlers[h].op, h>>} ELSE @,
                    !.handlers[h].status = IF cleaned.raised THEN "raised" ELSE "returned",
                    !.handlers[h].it = 0,
                    !.handlers[h].connections_after = cleaned.active_connections,
                    !.handlers[h].stored_after = stored]
    /\ UNCHANGED <<regdb, calc, procs>>
    /\ UNCHANGED nonsvc

InitMonitoring == Init

NextMonitoring ==
    \/ \E w \in Sockets : connect(w)
    \/ \E w \in Sockets : client_closes(w)
    \/ \E w \in Sockets : disconnect(w)
    \/ \E h \in Handlers : start_execution(h)
    \/ \E h \in Handlers : \E named \in BOOLEAN : broadcast_event(h, named)
    \/ \E h \in Handlers : update_execution(h)
    \/ \E h \in Handlers : send_json(h)
    \/ \E h \in Handlers : clean_up(h)

SpecMonitoring == InitMonitoring /\ [][NextMonitoring]_vars

----------------------------------------------------------------------------
(* RedisMemoryStore on its own: store, update and delete called with       *)
(* entries of differing agent, type, thread and tags, and the clock        *)

\* the attributes that an entry is indexed by
IndexedAttributes ==
    {[agent_id |-> "a1", type |-> SHORT_TERM, thread_id |-> "t1", tags |-> <<"x">>],
     [agent_id |-> "a2", type |-> LONG_TERM, thread_id |-> None, tags |-> <<>>],
     [agent_id |-> "a1", type |-> LONG_TERM, thread_id |-> "t1", tags |-> <<"x", "y">>],
     [agent_id |-> "a1", type |-> SHORT_TERM, thread_id |-> None, tags |-> <<"y">>]}

\* an entry built at time t that lives for one second, or for ever
IndexedEntry(memory_id, a, expires, t) ==
    MemoryEntry(memory_id, a.type, Text("c1"), a.agent_id, a.thread_id, a.tags, t,
                IF expires THEN t + TicksPerSecond ELSE NoTime)

\* the members of the index sets that hold the id
indexed_under(r, memory_id) == {x \in r.index : x[3] = memory_id}

\* store of a new entry: uuid4 gives an id that no entry ever had
store_entry(memory_id, a, expires) ==
    /\ ~redis_exists(redis, memory_id)
    /\ indexed_under(redis, memory_id) = {}
    /\ redis' = redis_store(redis, IndexedEntry(memory_id, a, expires, now), now)
    /\ ret' = [NoRet EXCEPT !.op = "store", !.id = memory_id, !.ok_redis = TRUE,
                            !.args = <<indexes_of(IndexedEntry(memory_id, a, expires, now)), {}>>]
    /\ UNCHANGED <<now, sqlite, mhist>>
    /\ UNCHANGED nonmemory

\* update, with what the index sets held under the id before it
update_entry(memory_id, a, expires) ==
    /\ redis' = redis_update(redis, memory_id, IndexedEntry(memory_id, a, expires, now), now)
    /\ ret' = [NoRet EXCEPT !.op = "update", !.id = memory_id,
                            !.ok_redis = redis_exists(redis, memory_id),
                            !.args = <<indexes_of(IndexedEntry(memory_id, a, expires, now)),
                                       indexed_under(redis, memory_id)>>]
    /\ UNCHANGED <<now, sqlite, mhist>>
    /\ UNCHANGED nonmemory

delete_entry(memory_id) ==
    /\ redis' = redis_delete(redis, memory_id)
    /\ ret' = [NoRet EXCEPT !.op = "delete", !.id = memory_id,
                            !.ok_redis = redis_exists(redis, memory_id)]
    /\ UNCHANGED <<now, sqlite, mhist>>
    /\ UNCHANGED nonmemory

InitRedisIndex == Init

NextRedisIndex ==
    \/ \E i \in MemoryIds, a \in IndexedAttributes, expires \in BOOLEAN : store_entry(i, a, expires)
    \/ \E i \in MemoryIds, a \in IndexedAttributes, expires \in BOOLEAN : update_entry(i, a, expires)
    \/ \E i \in MemoryIds : delete_entry(i)
    \/ tick

SpecRedisIndex == InitRedisIndex /\ [][NextRedisIndex]_vars

----------------------------------------------------------------------------
(* Memory.recall and Memory.forget called by callers that run side by      *)
(* side in one event loop, on the SQLite store and on the Redis store. A   *)
(* step is what a caller does between two awaits that suspend it: a whole  *)
(* call on the SQLite store, whose methods use sqlite3 directly; one        *)
(* command (or one run of SREM, of SADD, or SET with its EXPIRE) on the    *)
(* Redis store.                                                            *)

MaxStoreCalls == 3

Stores == {"sqlite", "redis"}

\* SET and EXPIRE of store
redis_set(r, entry, t) == [redis_store(r, entry, t) EXCEPT !.index = r.index]

\* _create_indexes
_create_indexes(r, entry) == [r EXCEPT !.index = @ \cup indexes_of(entry)]

retrieve(s, memory_id) ==
    IF s = "sqlite" THEN sqlite_retrieve(sqlite, memory_id)
    ELSE redis_retrieve(redis, memory_id)

Call(op, s, memory_id, position, entry) ==
    [op |-> op, store |-> s, id |-> memory_id, pc |-> position, entry |-> entry]

Returns(p) == [procs EXCEPT !.at[p] = NoCall]

Goes(p, position) == [procs EXCEPT !.at[p].pc = position]

NumberFound(s, memory_id) ==
    Cardinality({x \in procs.found : x[1] = s /\ x[2] = memory_id})

\* recall on the SQLite store: retrieve and update are coroutines that
\* never suspend, so the whole of recall is one step of the event loop
sqlite_recall(p, memory_id) ==
    /\ procs.at[p].pc = "idle"
    /\ procs.started < MaxStoreCalls
    /\ LET found == sqlite_retrieve(sqlite, memory_id)
       IN /\ sqlite' = IF found = <<>> THEN sqlite
                       ELSE sqlite_update(sqlite, memory_id, recalled(found[1], now))
          /\ procs' = [procs EXCEPT
                         !.started = @ + 1,
                         !.found = IF found = <<>> THEN @
                                   ELSE @ \cup {<<"sqlite", memory_id,
                                                  NumberFound("sqlite", memory_id) + 1>>}]
    /\ UNCHANGED <<now, redis, ret, mhist>>
    /\ UNCHANGED <<regdb, calc, mon>>
    /\ UNCHANGED <<graphvars, apivars>>

\* recall on the Redis store up to its update: GET, and the count of the
\* entry that came back goes up by one in the caller's copy
redis_recall_retrieve(p, memory_id) ==
    /\ procs.at[p].pc = "idle"
    /\ procs.started < MaxStoreCalls
    /\ LET found == redis_retrieve(redis, memory_id)
       IN procs' = IF found = <<>>
                   THEN [procs EXCEPT !.started = @ + 1]
                   ELSE [procs EXCEPT
                           !.started = @ + 1,
                           !.found = @ \cup {<<"redis", memory_id,
                                               NumberFound("redis", memory_id) + 1>>},
                           !.at[p] = Call("recall", "redis", memory_id, "exists",
                                          <<recalled(found[1], now)>>)]
    /\ UNCHANGED <<regdb, calc, mon>>
    /\ UNCHANGED nonsvc

\* RedisMemoryStore.update: EXISTS
redis_update_exists(p) ==
    /\ procs.at[p].pc = "exists"
    /\ procs' = IF redis_exists(redis, procs.at[p].id) THEN Goes(p, "old") ELSE Returns(p)
    /\ UNCHANGED <<regdb, calc, mon>>
    /\ UNCHANGED nonsvc

\* RedisMemoryStore.update: retrieve of the old entry and SREM of its indexes
redis_update_old(p) ==
    /\ procs.at[p].pc = "old"
    /\ LET old_entry == redis_retrieve(redis, procs.at[p].id)
       IN redis' = IF old_entry = <<>> THEN redis ELSE _remove_indexes(redis, old_entry[1])
    /\ procs' = Goes(p, "set")
    /\ UNCHANGED <<now, sqlite, ret, mhist>>
    /\ UNCHANGED <<regdb, calc, mon>>
    /\ UNCHANGED <<graphvars, apivars>>

\* RedisMemoryStore.update: store of the caller's copy, SET and EXPIRE
redis_update_set(p) ==
    /\ procs.at[p].pc = "set"
    /\ redis' = redis_set(redis, procs.at[p].entry[1], now)
    /\ procs' = Goes(p, "sadd")
    /\ UNCHANGED <<now, sqlite, ret, mhist>>
    /\ UNCHANGED <<regdb, calc, mon>>
    /\ UNCHANGED <<graphvars, apivars>>

\* RedisMemoryStore.update: store of the caller's copy, _create_indexes
redis_update_sadd(p) ==
    /\ procs.at[p].pc = "sadd"
    /\ redis' = _create_indexes(redis, procs.at[p].entry[1])
    /\ procs' = Returns(p)
    /\ UNCHANGED <<now, sqlite, ret, mhist>>
    /\ UNCHANGED <<regdb, calc, mon>>
    /\ UNCHANGED <<graphvars, apivars>>

\* forget on the SQLite store: DELETE, true when a row went
sqlite_forget(p, memory_id) ==
    /\ procs.at[p].pc = "idle"
    /\ procs.started < MaxStoreCalls
    /\ sqlite' = sqlite_delete(sqlite, memory_id)
    /\ procs' = [procs EXCEPT
                   !.started = @ + 1,
                   !.forgotten = IF sqlite_retrieve(sqlite, memory_id) # <<>>
                                 THEN @ \cup {<<"sqlite", memory_id>>} ELSE @]
    /\ UNCHANGED <<now, redis, ret, mhist>>
    /\ UNCHANGED <<regdb, calc, mon>>
    /\ UNCHANGED <<graphvars, apivars>>

\* forget on the Redis store: retrieve of the entry, False when there is none
redis_forget_retrieve(p, memory_id) ==
    /\ procs.at[p].pc = "idle"
    /\ procs.started < MaxStoreCalls
    /\ LET found == redis_retrieve(redis, memory_id)
       IN procs' = IF found = <<>>
                   THEN [procs EXCEPT !.started = @ + 1]
                   ELSE [procs EXCEPT !.started = @ + 1,
                                      !.at[p] = Call("forget", "redis", memory_id, "srem", found)]
    /\ UNCHANGED <<regdb, calc, mon>>
    /\ UNCHANGED nonsvc

\* forget on the Redis store: _remove_indexes of the entry retrieved
redis_forget_srem(p) ==
    /\ procs.at[p].pc = "srem"
    /\ redis' = _remove_indexes(redis, procs.at[p].entry[1])
    /\ procs' = Goes(p, "del")
    /\ UNCHANGED <<now, sqlite, ret, mhist>>
    /\ UNCHANGED <<regdb, calc, mon>>
    /\ UNCHANGED <<graphvars, apivars>>

\* forget on the Redis store: DEL, true when a key went
redis_forget_del(p) ==
    /\ procs.at[p].pc = "del"
    /\ redis' = [redis EXCEPT !.data = {e \in @ : e.id # procs.at[p].id},
                              !.expiry = {x \in @ : x[1] # procs.at[p].id}]
    /\ procs' = [Returns(p) EXCEPT
                   !.forgotten = IF redis_exists(redis, procs.at[p].id)
                                 THEN @ \cup {<<"redis", procs.at[p].id>>} ELSE @]
    /\ UNCHANGED <<now, sqlite, ret, mhist>>
    /\ UNCHANGED <<regdb, calc, mon>>
    /\ UNCHANGED <<graphvars, apivars>>

\* remember, whose id no other caller knows before it has returned
remember_first(call, memory_id) ==
    /\ remember(call, memory_id, 0)
    /\ UNCHANGED svcvars

InitConcurrent == Init

NextConcurrent ==
    \/ \E call \in RememberCalls, i \in MemoryIds : remember_first(call, i)
    \/ \E p \in Callers, i \in MemoryIds : sqlite_recall(p, i)
    \/ \E p \in Callers, i \in MemoryIds : redis_recall_retrieve(p, i)
    \/ \E p \in Callers : redis_update_exists(p)
    \/ \E p \in Callers : redis_update_old(p)
    \/ \E p \in Callers : redis_update_set(p)
    \/ \E p \in Callers : redis_update_sadd(p)
    \/ \E p \in Callers, i \in MemoryIds : sqlite_forget(p, i)
    \/ \E p \in Callers, i \in MemoryIds : redis_forget_retrieve(p, i)
    \/ \E p \in Callers : redis_forget_srem(p)
    \/ \E p \in Callers : redis_forget_del(p)

SpecConcurrent == InitConcurrent /\ [][NextConcurrent]_vars

----------------------------------------------------------------------------
(* Properties *)

AllPresent(context) == \A k \in AnalysisKeys : Truthy(context[k])

\* C1: a run started with max_iterations=1 returns a result with
\* error "Maximum iterations reached" and success=false.
C1_CeilingOfOneReportsMaxIterations ==
    (pc = "returned" /\ state.max_iterations = 1) =>
        (result.success = FALSE /\ result.error = MaxIterMsg)

\* C2: once quality_control has found all seven checks true, the run does
\* not end before document_review_agent has executed, and it ends with
\* final_output set from context.final_report.
C2_QualityPassReachesDocumentReview ==
    (pc = "returned" /\ hist.qc_passed) =>
        /\ "finalize_output" \in hist.executed
        /\ "document_review_agent" \in hist.completed
        /\ state.final_output = state.context.final_report

\* the order of the spec: perplexity > research > compliance > legal > risk
PriorityOrder ==
    <<"perplexity_research", "research_findings", "compliance_analysis",
      "legal_analysis", "risk_assessment">>

AgentOfKey ==
    [perplexity_research |-> "perplexity_agent", research_findings |-> "research_agent",
     compliance_analysis |-> "compliance_agent", legal_analysis |-> "legal_analysis_agent",
     risk_assessment |-> "risk_assessment_agent"]

JustOrchestrated ==
    pc = "running" /\ hist.last_node = "orchestrator" /\ state.error = None

\* C3: when at least one of the five analyses is missing, the orchestrator
\* step routes to the agent of the first missing key in the order
\* perplexity_research, research_findings, compliance_analysis,
\* legal_analysis, risk_assessment; an empty context routes to perplexity_agent.
C3_RoutesToFirstMissingAnalysis ==
    (JustOrchestrated /\ ~AllPresent(state.context)) =>
        \E i \in 1..Len(PriorityOrder) :
            /\ ~Truthy(state.context[PriorityOrder[i]])
            /\ \A j \in 1..(i-1) : Truthy(state.context[PriorityOrder[j]])
            /\ state.next_agent = AgentOfKey[PriorityOrder[i]]
            /\ active = {AgentOfKey[PriorityOrder[i]]}

C3_Witness ==
    /\ JustOrchestrated
    /\ Truthy(state.context.perplexity_research)
    /\ \A k \in AnalysisKeys \ {"perplexity_research"} : ~Truthy(state.context[k])
    /\ active = {"research_agent"}

JustQualityControlled ==
    pc = "running" /\ hist.last_node = "quality_control"

\* C4: the quality-control step routes to finalize_output exactly when all
\* five analyses are present, the confidence is above 0.6 and there are more
\* than 5 citations; otherwise it routes back to orchestrator.
C4_QualityGate ==
    JustQualityControlled =>
        IF /\ AllPresent(state.context)
           /\ state.confidence_score > 60
           /\ state.context.perplexity_citations > 5
        THEN active = {"finalize_output"} /\ state.context.quality_checked
        ELSE active = {"orchestrator"} /\ ~state.context.quality_checked

C4_Witness ==
    /\ JustQualityControlled
    /\ AllPresent(state.context)
    /\ state.confidence_score = 65
    /\ state.context.perplexity_citations = 6
    /\ active = {"finalize_output"}

\* C5 as claimed: document_review_agent is executed, and final_output is
\* non-empty, only after quality_control found all seven checks true
\* earlier in the same run.
C5_DocumentReviewOnlyAfterQualityPass ==
    ("document_review_agent" \in hist.executed \/ Truthy(state.final_output)) =>
        hist.qc_passed

\* C5 as amended: document_review_agent is executed, and final_output is
\* non-empty, only when all five analyses are present and the context
\* carries quality_checked, set by a quality_control step of this run that
\* found all seven checks true or already part of the caller's seed context.
C5_DocumentReviewOnlyWhenQualityChecked ==
    ("document_review_agent" \in hist.executed \/ Truthy(state.final_output)) =>
        /\ AllPresent(state.context)
        /\ state.context.quality_checked
        /\ (hist.qc_passed \/ hist.seed_checked)

C5_Witness ==
    /\ "document_review_agent" \in hist.completed
    /\ Truthy(state.final_output)
    /\ hist.seed_checked

\* C6: once an agent's process has raised, nothing is scheduled or running
\* any more, no node executes, and the state's error is the message
\* "Agent <name> failed: ..." of the failing agent.
C6_AgentFailureEndsRun ==
    hist.failed # None =>
        /\ active = {} /\ running = {} /\ pending = {}
        /\ state.error = AgentFailedMsg(ConfigName(hist.failed))
        /\ hist.after_failure = 0

C6_Witness ==
    /\ hist.failed = "risk_assessment_agent"
    /\ pc = "returned"

\* C7: the TaskResponse of a run in which an agent raised has
\* success=false and a non-empty error.
C7_FailedRunReportsError ==
    (pc = "responded" /\ hist.failed # None) =>
        (response.success = FALSE /\ response.error # None)

\* C8: when an agent fails, the result returned by run still has in its
\* context every key written by the agents that completed before it.
C8_PartialContextReturned ==
    (pc \in {"returned", "responded"} /\ hist.failed # None) =>
        \A k \in hist.written :
            /\ result.context[k] # "absent"
            /\ result.context[k] = state.context[k]

C8_Witness ==
    /\ pc = "returned"
    /\ hist.failed = "risk_assessment_agent"
    /\ {"compliance_analysis", "legal_analysis"} \subseteq hist.written
    /\ Truthy(result.context.compliance_analysis)
    /\ Truthy(result.context.legal_analysis)

\* C9: the orchestrator dispatches at most max_iterations agent or
\* quality-control steps in a run.
C9_DispatchesWithinCeiling ==
    pc # "idle" => hist.dispatches <= state.max_iterations

\* C10: at most one node is scheduled or executing at any time, an agent
\* starts only when no other agent is executing, and an orchestrator step
\* hands off to exactly one next node.
C10_StrictlySequential ==
    /\ Cardinality(active) + Cardinality(running) + Cardinality(pending) <= 1
    /\ JustOrchestrated => Cardinality(hist.last_handoff) = 1

C10_Witness ==
    /\ running = {"legal_analysis_agent"}
    /\ "compliance_agent" \in hist.completed

\* the context keys whose presence the model keeps apart from their value
ContextKeys == AnalysisKeys \cup {"final_report", "quality_checked", "quality_issues"}

\* key in context
HasKey(context, k) ==
    IF k \in {"quality_checked", "quality_issues"}
    THEN context[k]
    ELSE context[k] # "absent"

\* C11: within a run, a key present in the shared context after a graph
\* step is still present after every later step, and it is present in the
\* context of the result that run returns.
C11_ContextKeysNeverRemoved ==
    /\ [][pc = "running" =>
            \A k \in ContextKeys :
                HasKey(state.context, k) => HasKey(state'.context, k)]_vars
    /\ [](pc = "returned" =>
            \A k \in ContextKeys :
                HasKey(state.context, k) => HasKey(result.context, k))

\* what remember was called with for the id
Logged(memory_id) == CHOOSE l \in mhist.log : l.id = memory_id

\* the entry carries the content, agent id and tags that remember was given
AsRemembered(entry) ==
    /\ entry.content = Logged(entry.id).content
    /\ entry.agent_id = Logged(entry.id).agent_id
    /\ entry.tags = Logged(entry.id).tags

\* C12: on the SQLite store and on the Redis store alike, remember stores
\* an entry with the content, agent id and tags given and access_count 0;
\* recall of that id (on Redis: while the key is at least a second from
\* its expiry) returns the entry with the same content, agent id and tags
\* and with access_count one more than before, 1 at the first recall, and
\* the entry the store holds afterwards carries that count.
C12_RememberRecallRoundTrip ==
    /\ ret.op = "remember" =>
          /\ sqlite_retrieve(sqlite, ret.id) = redis_retrieve(redis, ret.id)
          /\ Len(sqlite_retrieve(sqlite, ret.id)) = 1
          /\ AsRemembered(sqlite_retrieve(sqlite, ret.id)[1])
          /\ sqlite_retrieve(sqlite, ret.id)[1].access_count = 0
    /\ (ret.op = "recall" /\ ret.id \in UsedIds) =>
          /\ ret.ok_sqlite
          /\ AsRemembered(ret.out_sqlite[1])
          /\ ret.out_sqlite[1].access_count = ret.before[1] + 1
          /\ sqlite_retrieve(sqlite, ret.id) = ret.out_sqlite
          /\ (ret.out_sqlite[1].expires_at = NoTime
              \/ now + TicksPerSecond <= ret.out_sqlite[1].expires_at) => ret.ok_redis
          /\ ret.ok_redis =>
                /\ AsRemembered(ret.out_redis[1])
                /\ ret.out_redis[1].access_count = ret.before[2] + 1
                /\ redis_retrieve(redis, ret.id) = ret.out_redis

C12_Witness ==
    /\ ret.op = "recall"
    /\ ret.ok_sqlite /\ ret.ok_redis
    /\ ret.before = <<0, 0>>
    /\ ret.out_sqlite[1].access_count = 1
    /\ ret.out_redis[1].access_count = 1
    /\ ret.out_redis[1].tags = <<"x", "y">>
    /\ redis_retrieve(redis, ret.id) = ret.out_redis
    /\ sqlite_retrieve(sqlite, ret.id) = ret.out_sqlite

\* both stores' entries and the keys of Redis that have a time to live
StoredEntries == sqlite \cup redis.data

\* C13: an entry that remember created with ttl=0 has no expires_at, and
\* its Redis key has no time to live, so that neither the expiry of Redis
\* nor the cleanup_expired of SQLite ever removes it.
C13_ZeroTtlNeverExpires ==
    \A l \in mhist.log :
        l.ttl = <<0>> =>
            /\ \A e \in StoredEntries : e.id = l.id => e.expires_at = NoTime
            /\ \A x \in redis.expiry : x[1] # l.id

\* the expiry timestamp of the entry has passed
Expired(entry) == entry.expires_at # NoTime /\ entry.expires_at < now

\* C14: an entry with an expiry timestamp that has passed is not among the
\* entries a search of the Redis store returns, and not among those a
\* search of the SQLite store returns after a cleanup_expired pass,
\* whatever recalls touched the entry before.
C14_ExpiredNeverReturned ==
    /\ ret.op = "search" => \A e \in Elems(ret.out_redis) : ~Expired(e)
    /\ ret.op = "cleanup_expired" =>
          \A q \in Queries, tie \in TieOrders :
              \A e \in Elems(sqlite_search(sqlite, q, tie)) : ~Expired(e)

\* C16: whatever has been stored, updated and deleted, a query returns from
\* the SQLite store and from the Redis store the same entries in the same
\* order (entries that the sort leaves equal taken in the same order).
C16_StoresSearchAlike ==
    \A q \in Queries, tie \in TieOrders :
        sqlite_search(sqlite, q, tie) = redis_search(redis, q, tie)

\* the entries remembered for the agent and thread within the last hour
Originals(agent_id, thread_id) ==
    {l \in mhist.log : /\ l.memory_type = SHORT_TERM
                       /\ l.agent_id = agent_id
                       /\ l.thread_id = thread_id
                       /\ l.tags # <<"consolidated">>
                       /\ l.at >= now - ConsolidateWindow}

\* the entries hold a long-term entry with the id returned whose content has
\* a line per original, the lines in the order of their timestamps, and
\* every original, marked as consolidated
ConsolidatedIn(entries, originals) ==
    /\ \E new \in entries :
          /\ new.id = ret.id
          /\ new.type = LONG_TERM
          /\ \A l \in originals : \E k \in 1..Len(new.content) :
                 new.content[k] = Line(l.at, l.content[1].text)
          /\ \A j, k \in 1..Len(new.content) :
                 (j < k /\ new.content[j].stamp # NoTime /\ new.content[k].stamp # NoTime)
                 => new.content[j].stamp <= new.content[k].stamp
    /\ \A l \in originals : \E e \in entries : e.id = l.id /\ e.consolidated

\* C15: after consolidate_memories for an agent and a thread that have 11 or
\* more short-term entries of the last hour, either store holds a new
\* long-term entry whose content includes every one of them in the order
\* of their timestamps, and every original is still there and marked as
\* consolidated
C15_ConsolidateCoversAll ==
    (/\ ret.op = "consolidate"
     /\ ret.args[2] # None
     /\ Cardinality(Originals(ret.args[1], ret.args[2])) >= 11)
    => /\ ConsolidatedIn({row_to_entry(r) : r \in sqlite},
                         Originals(ret.args[1], ret.args[2]))
       /\ ConsolidatedIn(redis.data, Originals(ret.args[1], ret.args[2]))

KeyedReplies ==
    {i \in 1..Len(ws.replies) : /\ ws.replies[i].frame.kind = "object"
                                /\ ws.replies[i].frame.api_key = settings_api_key}

\* the frames sent are one task_started and then one terminal frame:
\* task_completed with the same task_id, or error
StartedThenTerminal(sent) ==
    /\ Len(sent) = 2
    /\ sent[1].type = "task_started"
    /\ \/ sent[2].type = "task_completed" /\ sent[2].task_id = sent[1].task_id
       \/ sent[2].type = "error"

\* no task_completed without a task_started before it, and no run for a
\* frame whose api_key is not the configured one
NeverCompletedUnstarted ==
    \A i \in 1..Len(ws.replies) :
        LET r == ws.replies[i]
        IN /\ \A k \in 1..Len(r.sent) :
                  r.sent[k].type = "task_completed"
                  => \E j \in 1..(k - 1) : r.sent[j] = task_started(r.sent[k].task_id)
           /\ i \notin KeyedReplies => ~r.ran

EndsConnection(i) == ws.state = "closed" /\ i = Len(ws.replies)

\* the frames sent end with the one error frame among them
EndsWithOneError(sent) ==
    /\ sent # <<>>
    /\ sent[Len(sent)] = error
    /\ \A k \in 1..(Len(sent) - 1) : sent[k].type # "error"

C20_UseToolNeverRaises ==
    \A i \in 1..Len(tool.calls) :
        LET call == tool.calls[i]
        IN /\ call.raised = None
           /\ call.returned # NoToolResult
           /\ call.external = "fails"
              => ~call.returned.success /\ call.returned.error # None

\* C21: once populate_initial_data has been called, calling it again leaves
\* the tables regulations and compliance_templates with the rows they had
\* after the first call
C21_PopulateIdempotent ==
    (regdb.calls >= 1 /\ regdb.alone)
    => /\ regdb.regulations = regdb.first[1]
       /\ regdb.compliance_templates = regdb.first[2]

Unboosted(citations) ==
    \A i \in 1..Len(citations) :
        /\ citations[i].source_type # "official"
        /\ citations[i].regulatory_body = "none"
        /\ citations[i].published_date # "this year"

\* C22 as stated: a result with zero citations has confidence exactly the
\* base value 0.5 (50 hundredths)
C22_ZeroCitationsGiveBase ==
    (calc.done /\ calc.citations = <<>>) => calc.confidence = 50

\* C22 as amended: a result with zero citations has confidence exactly 0; a
\* result with citations of which none is official, none names a regulatory
\* body and none is recent has confidence exactly the base value 0.5; the
\* confidence is always within 0 and 1
C22_ZeroCitationsGiveZero ==
    calc.done =>
        /\ calc.citations = <<>> => calc.confidence = 0
        /\ (calc.citations # <<>> /\ Unboosted(calc.citations)) => calc.confidence = 50
        /\ calc.confidence \in 0..100

C22_Witness == calc.done /\ calc.citations = <<>> /\ calc.confidence = 0

StepsDone == {ConfigName(n) : n \in hist.completed} \cup (hist.executed \cap {"orchestrator"})

StartedThenCompleted(events, agent_name) ==
    \E i \in 1..Len(events) : \E j \in (i + 1)..Len(events) :
        /\ events[i].agent_name = agent_name /\ events[i].event_type = "started"
        /\ events[j].agent_name = agent_name /\ events[j].event_type = "completed"

\* C23: with the monitoring service available, for every orchestrator step
\* and every agent step that has completed in the run a "started" event and
\* later a "completed" event of that step have been broadcast
C23_StartedThenCompletedBroadcast ==
    \A agent_name \in StepsDone : StartedThenCompleted(hist.events, agent_name)

Returned(h) == mon.handlers[h].op = "broadcast_event" /\ mon.handlers[h].status = "returned"

ReceivedOnce(h, w) ==
    /\ mon.handlers[h].message \in mon.received[w]
    /\ <<w, mon.handlers[h].message>> \notin mon.twice

FailedAreGone(h) ==
    \A i \in 1..Len(mon.handlers[h].disconnected) :
        ~Has(mon.handlers[h].connections_after, mon.handlers[h].disconnected[i])

\* C24 as stated: after broadcast_event returns, the event is in the history
\* of the execution id it names, every client whose send succeeded is still
\* registered and received the event exactly once, and every client whose
\* send failed is no longer in the connection list
C24_BroadcastEventPostcondition ==
    \A h \in Handlers : Returned(h) =>
        /\ mon.handlers[h].stored_after
        /\ \A w \in mon.handlers[h].succeeded :
              Has(mon.handlers[h].connections_after, w) /\ ReceivedOnce(h, w)
        /\ FailedAreGone(h)

\* C24 as amended: after broadcast_event returns, the event is in the history
\* of the execution id it names, every client whose send succeeded received
\* the event exactly once and is still registered unless a disconnect or
\* another broadcast removed it in the meantime, and every client whose send
\* failed is no longer in the connection list
C24_BroadcastEventPostconditionUnlessRemoved ==
    \A h \in Handlers : Returned(h) =>
        /\ mon.handlers[h].stored_after
        /\ \A w \in mon.handlers[h].succeeded :
              /\ ReceivedOnce(h, w)
              /\ Has(mon.handlers[h].connections_after, w) \/ mon.removed[w] >= 1
        /\ FailedAreGone(h)

C24_Witness ==
    \E h \in Handlers :
        /\ Returned(h)
        /\ mon.handlers[h].succeeded # {}
        /\ mon.handlers[h].disconnected # <<>>
        /\ mon.events[h] # <<>>

\* C28: under any interleaving of broadcast_event, broadcast_state_update and
\* disconnect none of them raises, and a client is removed from the
\* connection list at most once
C28_NoRaiseRemovedOnce ==
    /\ mon.raised = {}
    /\ \A w \in Sockets : mon.removed[w] <= 1

\* C25: quality_control is never evaluated again after it failed unless an
\* agent step has executed in between
C25_FailedGateNotReevaluatedUnchanged == ~hist.regated

\* C30: on the Redis store, at every time every id in a memory_index set
\* refers to an existing key memory:{id}
C30_IndexedIdsExist ==
    \A x \in redis.index : redis_exists(redis, x[3])

\* C29: on the Redis store, after every store of an entry its id is in the
\* index sets of its agent, its type, its thread (if any) and each of its
\* tags; after every delete its id is in no index set; after every update
\* its id is in no index set of an attribute value that the entry had before
\* and does not have any more
C29_IndexesFollowTheEntry ==
    /\ ret.op = "store" => ret.args[1] \subseteq redis.index
    /\ ret.op = "delete" => indexed_under(redis, ret.id) = {}
    /\ ret.op = "update" => (ret.args[2] \ ret.args[1]) \cap redis.index = {}

\* C26: once forget of an id has returned true on a store, the store holds
\* no entry of that id, so that no later retrieve, recall or search returns
\* it, even when a recall of the id was under way beside the forget
C26_ForgottenStaysGone ==
    \A x \in procs.forgotten : retrieve(x[1], x[2]) = <<>>

Quiet == \A p \in Callers : procs.at[p].pc = "idle"

\* C27: when recall has been called N times on an existing memory id, in any
\* interleaving, and every call has returned, the access_count of the stored
\* entry is N
C27_NoLostAccessCount ==
    \A s \in Stores, i \in MemoryIds :
        (Quiet /\ retrieve(s, i) # <<>> /\ <<s, i>> \notin procs.forgotten)
        => retrieve(s, i)[1].access_count = NumberFound(s, i)

====
